---- MODULE Spec2Model ----
(***************************************************************************)
(* State-machine model of the launchpad programs:                          *)
(*   factory-program   (create_launch, buy_tokens, withdraw_sol,           *)
(*                      claim_vested_tokens, update_launch)                *)
(*   affiliate-program (register_affiliate, set_commission_rate,           *)
(*                      process_commission, update_commission_rate_ai,     *)
(*                      update_analytics)                                  *)
(*   barter-dex-program (create_pool, add_liquidity, swap,                 *)
(*                      update_oracle_price, update_pool_config,           *)
(*                      emergency_pause)                                   *)
(*                                                                         *)
(* Every instruction handler is a function from the accounts it is given   *)
(* to a result [err, w]: the error code it returns ("Ok" on success) and   *)
(* the accounts as the handler body has written them at the point where it *)
(* returned.  An instruction is one action; what it leaves in the accounts *)
(* is decided by Commit (the accounts are written back only when the       *)
(* handler returns Ok).                                                    *)
(*                                                                         *)
(* Integer widths.  TLC's integers are 32 bits wide, so the 64-bit         *)
(* quantities of the programs are modelled on a reduced scale: U64_MAX,    *)
(* U32_MAX, TOKEN_DECIMALS and ORACLE_PRICE_PRECISION stand for 2^64-1,    *)
(* 2^32-1, 10^9 and 10^9.  The u128 intermediates of the source never      *)
(* overflow for u64 operands and are computed exactly; every narrowing     *)
(* (try_into, `as u64`) is modelled.                                       *)
(* Basis points, rate limits and all durations keep their source values.   *)
(***************************************************************************)
EXTENDS Integers, Sequences, FiniteSets, TLC

\* ---------------------------------------------------------------- bounds
U64_MAX == 200
U32_MAX == 15
TOKEN_DECIMALS == 10
MaxTime == 259200
BuyerLamports == 120
ORACLE_PRICE_PRECISION == 10
UserTokens == 40
MaxPriceUpdates == 1
\* tier thresholds of calculate_performance_tier on the reduced u64 scale
\* (the source compares the volume with 10^7, 10^8 and 10^9)
SILVER_VOLUME == 5
GOLD_VOLUME == 60
PLATINUM_VOLUME == 150

\* ------------------------------------------------------ program constants
BPS_PRECISION == 10000
MAX_RATE_BPS == 2000
MIN_RATE_BPS == 50
MAX_VESTING_DURATION_SECONDS == 31557600
MIN_VESTING_DURATION_SECONDS == 86400
RATE_UPDATE_INTERVAL == 86400
DEFAULT_COMMISSION_RATE_BPS == 1000
MAX_SET_RATE_BPS == 10000
U16_MAX == 65535
DAILY_SLOTS == 30
MAX_ORACLE_AGE_SECONDS == 300
HISTORY_SLOTS == 24
PYTH_WEIGHT == 40
SWITCHBOARD_WEIGHT == 35
AI_WEIGHT == 25
MAX_VOLATILITY_MULTIPLIER == 5
MAX_DYNAMIC_FEE_BPS == 1000

U128_MAX == (U64_MAX + 1) * (U64_MAX + 1) - 1

\* Option::None of a numeric Option (every numeric value of the model is >= 0)
None == -1
\* Option::None of an Option<Pubkey>
NoKey == "NoKey"

Max(a, b) == IF a >= b THEN a ELSE b
Min(a, b) == IF a <= b THEN a ELSE b

\* ------------------------------------------------------------- results
Ok(w) == [err |-> "Ok", w |-> w]
Err(e, w) == [err |-> e, w |-> w]

\* checked_add / checked_sub on u64: None on overflow / underflow
checked_add_u64(a, b) == IF a + b > U64_MAX THEN None ELSE a + b
checked_sub_u64(a, b) == IF a < b THEN None ELSE a - b
checked_add_u32(a, b) == IF a + b > U32_MAX THEN None ELSE a + b
saturating_sub(a, b) == IF a < b THEN 0 ELSE a - b

\* variant: the commission rounded up instead of down
calculate_commission_amount_round_up(amount, commission_bps) ==
    LET commission_amount == (amount * commission_bps + BPS_PRECISION - 1) \div BPS_PRECISION
    IN  IF commission_amount > U64_MAX THEN None ELSE commission_amount

\* genesis_common::utils::math_utils
calculate_commission_amount(amount, commission_bps) ==
    LET commission_amount == (amount * commission_bps) \div BPS_PRECISION
    IN  IF commission_amount > U64_MAX THEN None ELSE commission_amount

calculate_bonding_curve_price(initial_price, slope, tokens_sold) ==
    LET price_increase == slope * tokens_sold
        current_price == initial_price + price_increase
    IN  IF current_price > U64_MAX THEN None ELSE current_price

\* variant: the quotient rounded up instead of down
calculate_tokens_to_mint_round_up(sol_amount, current_price) ==
    IF current_price = 0 THEN None
    ELSE LET tokens_to_mint == (sol_amount * TOKEN_DECIMALS + current_price - 1) \div current_price
         IN  IF tokens_to_mint > U64_MAX THEN None ELSE tokens_to_mint

calculate_tokens_to_mint(sol_amount, current_price) ==
    IF current_price = 0 THEN None
    ELSE LET tokens_to_mint == (sol_amount * TOKEN_DECIMALS) \div current_price
         IN  IF tokens_to_mint > U64_MAX THEN None ELSE tokens_to_mint

\* ------------------------------------------------- factory-program state
PricingModels == {"LinearBondingCurve", "ExponentialBondingCurve", "FixedPrice", "DutchAuction"}
AntiBotLevels == {"None", "Basic", "Advanced", "Maximum"}

AntiBotRank(l) == CASE l = "None" -> 0 [] l = "Basic" -> 1 [] l = "Advanced" -> 2 [] l = "Maximum" -> 3

\* u128::checked_pow: None exactly when base^exp does not fit
RECURSIVE checked_pow_u128(_, _)
checked_pow_u128(base, exp) ==
    IF exp = 0 THEN 1
    ELSE LET r == checked_pow_u128(base, exp - 1)
         IN  IF r = None THEN None
             ELSE IF r * base > U128_MAX THEN None ELSE r * base

\* variant: the end of the window is outside it
is_launch_active_open_end(state, current_time) ==
    current_time >= state.launch_start_time /\ current_time < state.launch_end_time

is_launch_active(state, current_time) ==
    current_time >= state.launch_start_time /\ current_time <= state.launch_end_time

is_max_supply_reached(state) == state.tokens_sold >= state.max_tokens

\* variant: the Dutch auction price is not held at the minimum price
calculate_current_price_no_floor(state, current_time) ==
    CASE state.pricing_model = "LinearBondingCurve" ->
            calculate_bonding_curve_price(state.initial_price, state.slope, state.tokens_sold)
      [] state.pricing_model = "ExponentialBondingCurve" ->
            LET multiplier == state.slope
                exponential_factor == checked_pow_u128(multiplier, state.tokens_sold % (U32_MAX + 1))
            IN  IF exponential_factor = None THEN None
                ELSE LET current_price_u128 == state.initial_price * exponential_factor
                     IN  IF current_price_u128 > U128_MAX THEN None
                         ELSE IF current_price_u128 > U64_MAX THEN None
                         ELSE current_price_u128
      [] state.pricing_model = "FixedPrice" -> state.initial_price
      [] state.pricing_model = "DutchAuction" ->
            LET time_elapsed == current_time - state.launch_start_time
                total_duration == state.launch_end_time - state.launch_start_time
            IN  IF total_duration = 0 THEN state.initial_price
                ELSE LET price_reduction == ((state.initial_price * time_elapsed) \div total_duration) % (U64_MAX + 1)
                     IN  saturating_sub(state.initial_price, price_reduction)

\* LaunchState::calculate_current_price: the price, or None for Err(Overflow)
calculate_current_price(state, current_time) ==
    CASE state.pricing_model = "LinearBondingCurve" ->
            calculate_bonding_curve_price(state.initial_price, state.slope, state.tokens_sold)
      [] state.pricing_model = "ExponentialBondingCurve" ->
            LET multiplier == state.slope
                exponential_factor == checked_pow_u128(multiplier, state.tokens_sold % (U32_MAX + 1))
            IN  IF exponential_factor = None THEN None
                ELSE LET current_price_u128 == state.initial_price * exponential_factor
                     IN  IF current_price_u128 > U128_MAX THEN None
                         ELSE IF current_price_u128 > U64_MAX THEN None
                         ELSE current_price_u128
      [] state.pricing_model = "FixedPrice" -> state.initial_price
      [] state.pricing_model = "DutchAuction" ->
            LET time_elapsed == current_time - state.launch_start_time
                total_duration == state.launch_end_time - state.launch_start_time
            IN  IF total_duration = 0 THEN state.initial_price
                ELSE LET price_reduction == ((state.initial_price * time_elapsed) \div total_duration) % (U64_MAX + 1)
                         current_price == saturating_sub(state.initial_price, price_reduction)
                     IN  Max(current_price, state.slope)

\* variant: the cooldown is enforced from level Basic on
validate_purchase_amount_basic_cooldown(state, amount, current_time) ==
    IF state.anti_bot_level = "None" THEN "Ok"
    ELSE IF ~(amount >= state.min_purchase_amount) THEN "PurchaseAmountTooLow"
    ELSE IF ~(amount <= state.max_purchase_amount) THEN "PurchaseAmountTooHigh"
    ELSE IF AntiBotRank(state.anti_bot_level) >= AntiBotRank("Basic")
            /\ ~(current_time - state.last_purchase_timestamp >= state.purchase_cooldown_seconds)
         THEN "PurchaseCooldownActive"
    ELSE "Ok"

\* LaunchState::validate_purchase_amount: "Ok" or the error code
validate_purchase_amount(state, amount, current_time) ==
    IF state.anti_bot_level = "None" THEN "Ok"
    ELSE IF ~(amount >= state.min_purchase_amount) THEN "PurchaseAmountTooLow"
    ELSE IF ~(amount <= state.max_purchase_amount) THEN "PurchaseAmountTooHigh"
    ELSE IF AntiBotRank(state.anti_bot_level) >= AntiBotRank("Advanced")
            /\ ~(current_time - state.last_purchase_timestamp >= state.purchase_cooldown_seconds)
         THEN "PurchaseCooldownActive"
    ELSE "Ok"

\* VestingSchedule::calculate_vested_amount
calculate_vested_amount(v, current_time) ==
    IF current_time < v.start_time + v.cliff_seconds THEN 0
    ELSE LET time_since_start == current_time - v.start_time
         IN  IF time_since_start >= v.duration_seconds THEN v.total_amount
             ELSE LET vesting_time == v.duration_seconds - v.cliff_seconds
                      vested_amount == (v.total_amount * time_since_start) \div vesting_time
                  IN  vested_amount % (U64_MAX + 1)

\* VestingSchedule::calculate_claimable_amount
calculate_claimable_amount(v, current_time) ==
    saturating_sub(calculate_vested_amount(v, current_time), v.claimed_amount)

\* ----------------------------------------------- affiliate-program state
PerformanceTiers == {"Bronze", "Silver", "Gold", "Platinum"}

\* variant: Gold and Silver are granted on the volume alone
calculate_performance_tier_by_volume(info) ==
    LET volume == info.total_referred_volume
    IN  [info EXCEPT !.performance_tier =
            IF volume >= PLATINUM_VOLUME THEN "Platinum"
            ELSE IF volume >= GOLD_VOLUME THEN "Gold"
            ELSE IF volume >= SILVER_VOLUME THEN "Silver"
            ELSE "Bronze"]

\* AffiliateInfo::calculate_performance_tier
calculate_performance_tier(info) ==
    LET volume == info.total_referred_volume
        conversion_rate == info.conversion_rate_bps
    IN  [info EXCEPT !.performance_tier =
            IF volume >= PLATINUM_VOLUME THEN "Platinum"
            ELSE IF volume >= GOLD_VOLUME /\ conversion_rate >= 500 THEN "Gold"
            ELSE IF volume >= SILVER_VOLUME /\ conversion_rate >= 200 THEN "Silver"
            ELSE "Bronze"]

\* AffiliateInfo::update_performance_score (the u32 sum cannot wrap for the
\* volumes of the model: volume_score is 0 below 10^6)
update_performance_score(info) ==
    LET volume_score == info.total_referred_volume \div 1000000
        conversion_score == info.conversion_rate_bps \div 10
        referral_score == info.successful_referrals \div 10
        tier_multiplier == CASE info.performance_tier = "Bronze" -> 1
                             [] info.performance_tier = "Silver" -> 2
                             [] info.performance_tier = "Gold" -> 3
                             [] info.performance_tier = "Platinum" -> 5
    IN  [info EXCEPT !.performance_score =
            (volume_score + conversion_score + referral_score) * tier_multiplier]

\* variant: an update exactly one interval after the last one is refused
can_update_rate_after_interval(info, new_rate, current_time) ==
    IF info.rate_caps_enabled
       /\ (new_rate < info.min_commission_rate_bps \/ new_rate > info.max_commission_rate_bps)
    THEN FALSE
    ELSE current_time - info.last_rate_update_time > RATE_UPDATE_INTERVAL

\* AffiliateInfo::can_update_rate
can_update_rate(info, new_rate, current_time) ==
    IF info.rate_caps_enabled
       /\ (new_rate < info.min_commission_rate_bps \/ new_rate > info.max_commission_rate_bps)
    THEN FALSE
    ELSE LET time_since_last_update == current_time - info.last_rate_update_time
         IN  time_since_last_update >= RATE_UPDATE_INTERVAL

\* variant: a poor conversion rate costs nothing
get_suggested_rate_no_penalty(info) ==
    LET base_rate == CASE info.performance_tier = "Bronze" -> 500
                       [] info.performance_tier = "Silver" -> 750
                       [] info.performance_tier = "Gold" -> 1000
                       [] info.performance_tier = "Platinum" -> 1250
        conversion_adjustment == IF info.conversion_rate_bps >= 500 THEN 100 ELSE 0
    IN  Min(Max(base_rate + conversion_adjustment, 50), 2000)

\* AffiliateInfo::get_suggested_rate
get_suggested_rate(info) ==
    LET base_rate == CASE info.performance_tier = "Bronze" -> 500
                       [] info.performance_tier = "Silver" -> 750
                       [] info.performance_tier = "Gold" -> 1000
                       [] info.performance_tier = "Platinum" -> 1250
        conversion_adjustment == IF info.conversion_rate_bps >= 500 THEN 100
                                 ELSE IF info.conversion_rate_bps <= 100 THEN -50
                                 ELSE 0
    IN  Min(Max(base_rate + conversion_adjustment, 50), 2000)

\* variant: the index wraps one slot early
add_daily_stats_short_ring(a, volume, clicks) ==
    [a EXCEPT !.daily_volume[a.current_day_index + 1] = volume,
              !.daily_clicks[a.current_day_index + 1] = clicks,
              !.current_day_index = (a.current_day_index + 1) % (DAILY_SLOTS - 1)]

\* AffiliateAnalytics::add_daily_stats (indices are 0-based in the source)
add_daily_stats(a, volume, clicks) ==
    [a EXCEPT !.daily_volume[a.current_day_index + 1] = volume,
              !.daily_clicks[a.current_day_index + 1] = clicks,
              !.current_day_index = (a.current_day_index + 1) % DAILY_SLOTS]

\* ------------------------------------------------ accounts (the "world")
\* the SPL token and system program primitives the handlers call through CPI.
\* Token balances are kept per holder: "vesting_schedule" is what the vesting
\* schedule holds, the destination of a vested purchase (lib.rs 270-274) and
\* the account claim_vested_tokens pays from, whose authority is the vesting
\* schedule (lib.rs 598-603).
mint_to(w, to, amount) ==
    IF w.mint_supply + amount > U64_MAX THEN Err("TokenOverflow", w)
    ELSE Ok([w EXCEPT !.tokens[to] = @ + amount, !.mint_supply = @ + amount])

token_transfer(w, from, to, amount) ==
    IF w.tokens[from] < amount THEN Err("TokenInsufficientFunds", w)
    ELSE Ok([w EXCEPT !.tokens[from] = @ - amount, !.tokens[to] = @ + amount])

system_transfer(w, from, to, amount) ==
    IF w.lamports[from] < amount THEN Err("SystemInsufficientFunds", w)
    ELSE Ok([w EXCEPT !.lamports[from] = @ - amount, !.lamports[to] = @ + amount])

\* ------------------------------------------- affiliate-program handlers
AffiliateKey == "affiliate"

NoAffiliateInfo ==
    [is_initialized |-> FALSE, affiliate_key |-> NoKey,
     total_referred_volume |-> 0, commission_rate_bps |-> 0,
     performance_tier |-> "Bronze", monthly_referred_volume |-> 0,
     quarterly_referred_volume |-> 0, yearly_referred_volume |-> 0,
     successful_referrals |-> 0, total_clicks |-> 0, conversion_rate_bps |-> 0,
     performance_score |-> 0, rate_caps_enabled |-> FALSE,
     max_commission_rate_bps |-> 0, min_commission_rate_bps |-> 0,
     referral_level |-> 0, parent_affiliate |-> NoKey,
     registration_time |-> 0, last_activity_time |-> 0, last_rate_update_time |-> 0]

NoAnalytics ==
    [daily_volume |-> [i \in 1..DAILY_SLOTS |-> 0],
     daily_clicks |-> [i \in 1..DAILY_SLOTS |-> 0],
     last_update |-> 0, current_day_index |-> 0]

\* variant: a referral_level of 0 is accepted
register_affiliate_level_zero(w, args, current_time) ==
    IF w.affiliate_info.is_initialized THEN Err("AccountAlreadyInUse", w)
    ELSE IF ~(args.referral_level <= 5)
         THEN Err("InvalidReferralLevel", w)
    ELSE IF args.parent_affiliate # NoKey /\ ~(args.parent_affiliate # AffiliateKey)
         THEN Err("CircularReferral", w)
    ELSE Ok([w EXCEPT !.affiliate_info =
            [is_initialized |-> TRUE, affiliate_key |-> AffiliateKey,
             total_referred_volume |-> 0,
             commission_rate_bps |-> DEFAULT_COMMISSION_RATE_BPS,
             performance_tier |-> "Bronze", monthly_referred_volume |-> 0,
             quarterly_referred_volume |-> 0, yearly_referred_volume |-> 0,
             successful_referrals |-> 0, total_clicks |-> 0,
             conversion_rate_bps |-> 0, performance_score |-> 0,
             rate_caps_enabled |-> args.rate_caps_enabled,
             max_commission_rate_bps |->
                 IF args.rate_caps_enabled THEN args.max_commission_rate_bps ELSE MAX_RATE_BPS,
             min_commission_rate_bps |->
                 IF args.rate_caps_enabled THEN args.min_commission_rate_bps ELSE MIN_RATE_BPS,
             referral_level |-> args.referral_level,
             parent_affiliate |-> args.parent_affiliate,
             registration_time |-> current_time, last_activity_time |-> current_time,
             last_rate_update_time |-> current_time]])

register_affiliate(w, args, current_time) ==
    IF w.affiliate_info.is_initialized THEN Err("AccountAlreadyInUse", w)
    ELSE IF ~(args.referral_level > 0 /\ args.referral_level <= 5)
         THEN Err("InvalidReferralLevel", w)
    ELSE IF args.parent_affiliate # NoKey /\ ~(args.parent_affiliate # AffiliateKey)
         THEN Err("CircularReferral", w)
    ELSE Ok([w EXCEPT !.affiliate_info =
            [is_initialized |-> TRUE, affiliate_key |-> AffiliateKey,
             total_referred_volume |-> 0,
             commission_rate_bps |-> DEFAULT_COMMISSION_RATE_BPS,
             performance_tier |-> "Bronze", monthly_referred_volume |-> 0,
             quarterly_referred_volume |-> 0, yearly_referred_volume |-> 0,
             successful_referrals |-> 0, total_clicks |-> 0,
             conversion_rate_bps |-> 0, performance_score |-> 0,
             rate_caps_enabled |-> args.rate_caps_enabled,
             max_commission_rate_bps |->
                 IF args.rate_caps_enabled THEN args.max_commission_rate_bps ELSE MAX_RATE_BPS,
             min_commission_rate_bps |->
                 IF args.rate_caps_enabled THEN args.min_commission_rate_bps ELSE MIN_RATE_BPS,
             referral_level |-> args.referral_level,
             parent_affiliate |-> args.parent_affiliate,
             registration_time |-> current_time, last_activity_time |-> current_time,
             last_rate_update_time |-> current_time]])

set_commission_rate(w, signer, new_rate_bps) ==
    IF ~w.affiliate_info.is_initialized THEN Err("AccountNotInitialized", w)
    ELSE IF signer # w.affiliate_info.affiliate_key THEN Err("AuthorityMismatch", w)
    ELSE IF ~(new_rate_bps <= MAX_SET_RATE_BPS) THEN Err("InvalidRate", w)
    ELSE Ok([w EXCEPT !.affiliate_info.commission_rate_bps = new_rate_bps])

\* variant: the commission computed with the launch's affiliate_fee_bps
\* instead of the affiliate's stored rate
process_commission_launch_rate(w, purchased_tokens, current_time) ==
    LET commission_bps == w.launch.affiliate_fee_bps
        commission_amount == ((purchased_tokens * commission_bps) \div 10000) % (U64_MAX + 1)
        m == mint_to(w, "affiliate_token_account", commission_amount)
    IN  IF m.err # "Ok" THEN m
        ELSE LET total == checked_add_u64(m.w.affiliate_info.total_referred_volume, purchased_tokens)
             IN  IF total = None THEN Err("Overflow", m.w)
        ELSE LET w1 == [m.w EXCEPT !.affiliate_info.total_referred_volume = total]
                 monthly == checked_add_u64(w1.affiliate_info.monthly_referred_volume, purchased_tokens)
             IN  IF monthly = None THEN Err("Overflow", w1)
        ELSE LET w2 == [w1 EXCEPT !.affiliate_info.monthly_referred_volume = monthly]
                 referrals == checked_add_u32(w2.affiliate_info.successful_referrals, 1)
             IN  IF referrals = None THEN Err("Overflow", w2)
        ELSE LET info3 == [w2.affiliate_info EXCEPT !.successful_referrals = referrals,
                                                   !.last_activity_time = current_time]
             IN  Ok([w2 EXCEPT !.affiliate_info =
                        update_performance_score(calculate_performance_tier(info3))])

process_commission(w, purchased_tokens, current_time) ==
    LET commission_bps == w.affiliate_info.commission_rate_bps
        commission_amount == ((purchased_tokens * commission_bps) \div 10000) % (U64_MAX + 1)
        m == mint_to(w, "affiliate_token_account", commission_amount)
    IN  IF m.err # "Ok" THEN m
        ELSE LET total == checked_add_u64(m.w.affiliate_info.total_referred_volume, purchased_tokens)
             IN  IF total = None THEN Err("Overflow", m.w)
        ELSE LET w1 == [m.w EXCEPT !.affiliate_info.total_referred_volume = total]
                 monthly == checked_add_u64(w1.affiliate_info.monthly_referred_volume, purchased_tokens)
             IN  IF monthly = None THEN Err("Overflow", w1)
        ELSE LET w2 == [w1 EXCEPT !.affiliate_info.monthly_referred_volume = monthly]
                 referrals == checked_add_u32(w2.affiliate_info.successful_referrals, 1)
             IN  IF referrals = None THEN Err("Overflow", w2)
        ELSE LET info3 == [w2.affiliate_info EXCEPT !.successful_referrals = referrals,
                                                   !.last_activity_time = current_time]
             IN  Ok([w2 EXCEPT !.affiliate_info =
                        update_performance_score(calculate_performance_tier(info3))])

update_commission_rate_ai(w, args, current_time) ==
    LET info == w.affiliate_info
    IN  IF ~info.is_initialized THEN Err("AccountNotInitialized", w)
        ELSE IF ~(args.new_rate_bps >= MIN_RATE_BPS /\ args.new_rate_bps <= MAX_RATE_BPS)
             THEN Err("InvalidRate", w)
        ELSE IF info.rate_caps_enabled /\ ~(args.new_rate_bps >= info.min_commission_rate_bps)
             THEN Err("RateBelowMinCap", w)
        ELSE IF info.rate_caps_enabled /\ ~(args.new_rate_bps <= info.max_commission_rate_bps)
             THEN Err("RateExceedsMaxCap", w)
        ELSE IF ~can_update_rate(info, args.new_rate_bps, current_time)
             THEN Err("RateUpdateNotAllowed", w)
        ELSE Ok([w EXCEPT !.affiliate_info.commission_rate_bps = args.new_rate_bps,
                          !.affiliate_info.last_rate_update_time = current_time])

\* get_ai_suggested_rate: reads the record and emits AISuggestedRateEvent
get_ai_suggested_rate(w, current_time) ==
    IF ~w.affiliate_info.is_initialized
    THEN [err |-> "AccountNotInitialized", w |-> w, event |-> None]
    ELSE LET info == w.affiliate_info
             suggested_rate == get_suggested_rate(info)
         IN  [err |-> "Ok", w |-> w,
              event |-> [affiliate_key |-> info.affiliate_key,
                         current_rate_bps |-> info.commission_rate_bps,
                         suggested_rate_bps |-> suggested_rate,
                         performance_tier |-> info.performance_tier,
                         timestamp |-> current_time]]

update_analytics(w, args, current_time) ==
    IF ~w.affiliate_info.is_initialized THEN Err("AccountNotInitialized", w)
    ELSE LET w1 == [w EXCEPT !.analytics =
                        [add_daily_stats(w.analytics, args.volume, args.clicks)
                            EXCEPT !.last_update = current_time]]
             total == checked_add_u64(w1.affiliate_info.total_referred_volume, args.volume)
         IN  IF total = None THEN Err("Overflow", w1)
    ELSE LET w2 == [w1 EXCEPT !.affiliate_info.total_referred_volume = total]
             clicks == checked_add_u32(w2.affiliate_info.total_clicks, args.clicks)
         IN  IF clicks = None THEN Err("Overflow", w2)
    ELSE LET info3 == [w2.affiliate_info EXCEPT !.total_clicks = clicks]
             info4 == IF info3.total_clicks > 0
                      THEN [info3 EXCEPT !.conversion_rate_bps =
                              ((info3.successful_referrals * BPS_PRECISION) \div info3.total_clicks)
                                  % (U16_MAX + 1)]
                      ELSE info3
         IN  Ok([w2 EXCEPT !.affiliate_info =
                    update_performance_score(calculate_performance_tier(info4))])

\* --------------------------------------------- factory-program handlers
AuthorityKey == "authority"
BuyerKey == "buyer"

NoLaunch ==
    [is_initialized |-> FALSE, authority |-> NoKey,
     pricing_model |-> "LinearBondingCurve", initial_price |-> 0, slope |-> 0,
     tokens_sold |-> 0, vesting_enabled |-> FALSE,
     vesting_duration_seconds |-> 0, vesting_cliff_seconds |-> 0,
     anti_bot_level |-> "None", min_purchase_amount |-> 0, max_purchase_amount |-> 0,
     purchase_cooldown_seconds |-> 0, last_purchase_timestamp |-> 0,
     max_tokens |-> 0, launch_start_time |-> 0, launch_end_time |-> 0,
     affiliate_fee_bps |-> 0, platform_fee_bps |-> 0,
     total_sol_collected |-> 0, total_fees_collected |-> 0, purchase_count |-> 0]

\* the zero-filled account that init_if_needed creates
NoVesting ==
    [beneficiary |-> NoKey, total_amount |-> 0, claimed_amount |-> 0,
     start_time |-> 0, duration_seconds |-> 0, cliff_seconds |-> 0,
     last_claim_time |-> 0]

create_launch(w, args, current_time) ==
    IF w.launch.is_initialized THEN Err("AccountAlreadyInUse", w)
    ELSE IF ~(args.launch_start_time >= current_time) THEN Err("InvalidLaunchTime", w)
    ELSE IF ~(args.launch_end_time > args.launch_start_time) THEN Err("InvalidLaunchTime", w)
    ELSE IF ~(args.affiliate_fee_bps <= MAX_RATE_BPS) THEN Err("InvalidFeeConfig", w)
    ELSE IF ~(args.platform_fee_bps <= MAX_RATE_BPS) THEN Err("InvalidFeeConfig", w)
    ELSE IF args.vesting_enabled
            /\ ~(args.vesting_duration_seconds >= MIN_VESTING_DURATION_SECONDS)
         THEN Err("InvalidVestingParams", w)
    ELSE IF args.vesting_enabled
            /\ ~(args.vesting_duration_seconds <= MAX_VESTING_DURATION_SECONDS)
         THEN Err("InvalidVestingParams", w)
    ELSE IF args.vesting_enabled
            /\ ~(args.vesting_cliff_seconds <= args.vesting_duration_seconds)
         THEN Err("InvalidVestingParams", w)
    ELSE Ok([w EXCEPT !.launch =
            [is_initialized |-> TRUE, authority |-> AuthorityKey,
             pricing_model |-> args.pricing_model,
             initial_price |-> args.initial_price, slope |-> args.slope,
             tokens_sold |-> 0,
             vesting_enabled |-> args.vesting_enabled,
             vesting_duration_seconds |-> args.vesting_duration_seconds,
             vesting_cliff_seconds |-> args.vesting_cliff_seconds,
             anti_bot_level |-> args.anti_bot_level,
             min_purchase_amount |-> args.min_purchase_amount,
             max_purchase_amount |-> args.max_purchase_amount,
             purchase_cooldown_seconds |-> args.purchase_cooldown_seconds,
             last_purchase_timestamp |-> current_time,
             max_tokens |-> args.max_tokens,
             launch_start_time |-> args.launch_start_time,
             launch_end_time |-> args.launch_end_time,
             affiliate_fee_bps |-> args.affiliate_fee_bps,
             platform_fee_bps |-> args.platform_fee_bps,
             total_sol_collected |-> 0, total_fees_collected |-> 0,
             purchase_count |-> 0]])

\* variant: the platform fee is paid into the SOL vault
buy_tokens_transfers_fee_to_vault(w, platform_fee, net_sol_amount) ==
    LET p == IF platform_fee > 0
             THEN system_transfer(w, "buyer", "sol_vault", platform_fee)
             ELSE Ok(w)
    IN  IF p.err # "Ok" THEN p
        ELSE system_transfer(p.w, "buyer", "sol_vault", net_sol_amount)

\* buy_tokens, lines 231-255: the two SOL transfers
buy_tokens_transfers(w, platform_fee, net_sol_amount) ==
    LET p == IF platform_fee > 0
             THEN system_transfer(w, "buyer", "platform_fee_recipient", platform_fee)
             ELSE Ok(w)
    IN  IF p.err # "Ok" THEN p
        ELSE system_transfer(p.w, "buyer", "sol_vault", net_sol_amount)

\* buy_tokens, lines 269-300: the mint and the vesting schedule
buy_tokens_mint(w, tokens_to_mint, enable_vesting, current_time) ==
    LET token_destination == IF enable_vesting THEN "vesting_schedule"
                             ELSE "buyer_token_account"
        m == mint_to(w, token_destination, tokens_to_mint)
    IN  IF m.err # "Ok" THEN m
        ELSE IF enable_vesting
             THEN Ok([m.w EXCEPT !.vesting =
                        [beneficiary |-> BuyerKey,
                         total_amount |-> tokens_to_mint,
                         claimed_amount |-> 0,
                         start_time |-> current_time,
                         duration_seconds |-> m.w.launch.vesting_duration_seconds,
                         cliff_seconds |-> m.w.launch.vesting_cliff_seconds,
                         last_claim_time |-> current_time]])
             ELSE m

\* buy_tokens, lines 302-316: the synchronous call into the affiliate program;
\* cpi is the outcome of process_commission ("NotCalled" when it is not invoked)
\* variant: the result of the call is dropped, the purchase goes on without
\* the commission when process_commission fails
buy_tokens_commission_ignore_failure(w, affiliate_key, tokens_to_mint, current_time) ==
    IF affiliate_key = NoKey THEN [err |-> "Ok", w |-> w, cpi |-> "NotCalled"]
    ELSE IF affiliate_key # AffiliateKey
         THEN [err |-> "AffiliateMismatch", w |-> w, cpi |-> "NotCalled"]
    ELSE LET r == process_commission(w, tokens_to_mint, current_time)
         IN  [err |-> "Ok", w |-> IF r.err = "Ok" THEN r.w ELSE w, cpi |-> r.err]

buy_tokens_commission(w, affiliate_key, tokens_to_mint, current_time) ==
    IF affiliate_key = NoKey THEN [err |-> "Ok", w |-> w, cpi |-> "NotCalled"]
    ELSE IF affiliate_key # AffiliateKey
         THEN [err |-> "AffiliateMismatch", w |-> w, cpi |-> "NotCalled"]
    ELSE LET r == process_commission(w, tokens_to_mint, current_time)
         IN  [err |-> r.err, w |-> r.w, cpi |-> r.err]

\* buy_tokens, lines 318-326: the launch counters
buy_tokens_update_state(w, new_total_supply, net_sol_amount, platform_fee, current_time) ==
    LET w1 == [w EXCEPT !.launch.tokens_sold = new_total_supply]
        sol == checked_add_u64(w1.launch.total_sol_collected, net_sol_amount)
    IN  IF sol = None THEN Err("Overflow", w1)
    ELSE LET w2 == [w1 EXCEPT !.launch.total_sol_collected = sol]
             fees == checked_add_u64(w2.launch.total_fees_collected, platform_fee)
         IN  IF fees = None THEN Err("Overflow", w2)
    ELSE LET w3 == [w2 EXCEPT !.launch.total_fees_collected = fees]
             cnt == checked_add_u64(w3.launch.purchase_count, 1)
         IN  IF cnt = None THEN Err("Overflow", w3)
    ELSE Ok([w3 EXCEPT !.launch.purchase_count = cnt,
                       !.launch.last_purchase_timestamp = current_time])

buy_tokens(w, sol_amount, affiliate_key, enable_vesting, current_time) ==
    LET state == w.launch
        R(e, ww) == [err |-> e, w |-> ww, cpi |-> "NotCalled"]
    IN  IF ~state.is_initialized \/ ~w.affiliate_info.is_initialized
        THEN R("AccountNotInitialized", w)
    ELSE IF ~(sol_amount > 0) THEN R("InvalidAmount", w)
    ELSE IF ~is_launch_active(state, current_time) THEN R("LaunchNotActive", w)
    ELSE IF is_max_supply_reached(state) THEN R("MaxSupplyReached", w)
    ELSE IF validate_purchase_amount(state, sol_amount, current_time) # "Ok"
         THEN R(validate_purchase_amount(state, sol_amount, current_time), w)
    ELSE LET current_price_per_token == calculate_current_price(state, current_time)
         IN  IF current_price_per_token = None THEN R("Overflow", w)
    ELSE IF ~(current_price_per_token > 0) THEN R("InvalidAmount", w)
    ELSE LET tokens_to_mint == calculate_tokens_to_mint(sol_amount, current_price_per_token)
         IN  IF tokens_to_mint = None THEN R("Overflow", w)
    ELSE IF ~(tokens_to_mint > 0) THEN R("InsufficientFunds", w)
    ELSE LET new_total_supply == checked_add_u64(state.tokens_sold, tokens_to_mint)
         IN  IF new_total_supply = None THEN R("Overflow", w)
    ELSE IF ~(new_total_supply <= state.max_tokens) THEN R("MaxSupplyReached", w)
    ELSE LET platform_fee == IF state.platform_fee_bps > 0
                             THEN calculate_commission_amount(sol_amount, state.platform_fee_bps)
                             ELSE 0
             affiliate_fee == IF affiliate_key # NoKey
                              THEN calculate_commission_amount(sol_amount, state.affiliate_fee_bps)
                              ELSE 0
         IN  IF platform_fee = None \/ affiliate_fee = None THEN R("Overflow", w)
    ELSE LET after_platform == checked_sub_u64(sol_amount, platform_fee)
             net_sol_amount == IF after_platform = None THEN None
                               ELSE checked_sub_u64(after_platform, affiliate_fee)
         IN  IF net_sol_amount = None THEN R("FeeCalculationOverflow", w)
    ELSE LET t == buy_tokens_transfers(w, platform_fee, net_sol_amount)
         IN  IF t.err # "Ok" THEN R(t.err, t.w)
    ELSE LET m == buy_tokens_mint(t.w, tokens_to_mint, enable_vesting, current_time)
         IN  IF m.err # "Ok" THEN R(m.err, m.w)
    ELSE LET c == buy_tokens_commission(m.w, affiliate_key, tokens_to_mint, current_time)
         IN  IF c.err # "Ok" THEN c
    ELSE LET u == buy_tokens_update_state(c.w, new_total_supply, net_sol_amount,
                                          platform_fee, current_time)
         IN  [err |-> u.err, w |-> u.w, cpi |-> c.cpi]

\* variant: the withdrawal is taken off total_sol_collected
withdraw_sol_off_total(w, signer) ==
    IF ~w.launch.is_initialized THEN Err("AccountNotInitialized", w)
    ELSE IF signer # w.launch.authority THEN Err("AuthorityMismatch", w)
    ELSE LET lamports_to_withdraw == w.lamports["sol_vault"]
         IN  IF ~(lamports_to_withdraw > 0) THEN Err("InvalidAmount", w)
             ELSE system_transfer([w EXCEPT !.launch.total_sol_collected =
                                       saturating_sub(@, lamports_to_withdraw)],
                                  "sol_vault", "authority", lamports_to_withdraw)

withdraw_sol(w, signer) ==
    IF ~w.launch.is_initialized THEN Err("AccountNotInitialized", w)
    ELSE IF signer # w.launch.authority THEN Err("AuthorityMismatch", w)
    ELSE LET lamports_to_withdraw == w.lamports["sol_vault"]
         IN  IF ~(lamports_to_withdraw > 0) THEN Err("InvalidAmount", w)
             ELSE system_transfer(w, "sol_vault", "authority", lamports_to_withdraw)

claim_vested_tokens(w, signer, current_time) ==
    IF ~w.launch.is_initialized THEN Err("AccountNotInitialized", w)
    ELSE IF w.vesting.beneficiary = NoKey THEN Err("VestingScheduleNotFound", w)
    ELSE IF signer # w.vesting.beneficiary THEN Err("AuthorityMismatch", w)
    ELSE LET claimable_amount == calculate_claimable_amount(w.vesting, current_time)
         IN  IF ~(claimable_amount > 0) THEN Err("NoTokensToClaim", w)
    ELSE LET t == token_transfer(w, "vesting_schedule", "buyer_token_account",
                                 claimable_amount)
         IN  IF t.err # "Ok" THEN t
    ELSE LET claimed == checked_add_u64(t.w.vesting.claimed_amount, claimable_amount)
         IN  IF claimed = None THEN Err("Overflow", t.w)
    ELSE Ok([t.w EXCEPT !.vesting.claimed_amount = claimed,
                        !.vesting.last_claim_time = current_time])

\* variant: new_max_tokens stored without comparing it with tokens_sold
update_launch_no_supply_check(w, signer, args, current_time) ==
    IF ~w.launch.is_initialized THEN Err("AccountNotInitialized", w)
    ELSE IF signer # w.launch.authority THEN Err("AuthorityMismatch", w)
    ELSE IF args.new_end_time # None /\ ~(args.new_end_time > current_time)
         THEN Err("InvalidLaunchTime", w)
    ELSE LET w1 == IF args.new_end_time # None
                   THEN [w EXCEPT !.launch.launch_end_time = args.new_end_time]
                   ELSE w
             w2 == IF args.new_max_tokens # None
                   THEN [w1 EXCEPT !.launch.max_tokens = args.new_max_tokens]
                   ELSE w1
             w3 == IF args.new_min_purchase_amount # None
                   THEN [w2 EXCEPT !.launch.min_purchase_amount = args.new_min_purchase_amount]
                   ELSE w2
         IN  Ok(IF args.new_max_purchase_amount # None
                THEN [w3 EXCEPT !.launch.max_purchase_amount = args.new_max_purchase_amount]
                ELSE w3)

update_launch(w, signer, args, current_time) ==
    IF ~w.launch.is_initialized THEN Err("AccountNotInitialized", w)
    ELSE IF signer # w.launch.authority THEN Err("AuthorityMismatch", w)
    ELSE IF args.new_end_time # None /\ ~(args.new_end_time > current_time)
         THEN Err("InvalidLaunchTime", w)
    ELSE LET w1 == IF args.new_end_time # None
                   THEN [w EXCEPT !.launch.launch_end_time = args.new_end_time]
                   ELSE w
         IN  IF args.new_max_tokens # None /\ ~(args.new_max_tokens >= w1.launch.tokens_sold)
             THEN Err("InvalidAmount", w1)
    ELSE LET w2 == IF args.new_max_tokens # None
                   THEN [w1 EXCEPT !.launch.max_tokens = args.new_max_tokens]
                   ELSE w1
             w3 == IF args.new_min_purchase_amount # None
                   THEN [w2 EXCEPT !.launch.min_purchase_amount = args.new_min_purchase_amount]
                   ELSE w2
         IN  Ok(IF args.new_max_purchase_amount # None
                THEN [w3 EXCEPT !.launch.max_purchase_amount = args.new_max_purchase_amount]
                ELSE w3)

\* --------------------------------------------- barter-dex-program state
OracleProviders == {"Pyth", "Switchboard", "AIOracle", "Hybrid"}

\* variant: the weighted sum is divided by the sum of all three weights,
\* whichever sources are stored
calculate_weighted_price_all_weights(pool) ==
    LET sum1 == IF pool.pyth_price # None THEN pool.pyth_price * PYTH_WEIGHT ELSE 0
        sum2 == IF pool.switchboard_price # None
                THEN sum1 + pool.switchboard_price * SWITCHBOARD_WEIGHT ELSE sum1
        weighted_sum == IF pool.ai_price # None THEN sum2 + pool.ai_price * AI_WEIGHT ELSE sum2
    IN  IF pool.pyth_price = None /\ pool.switchboard_price = None /\ pool.ai_price = None
        THEN pool.oracle_price
        ELSE (weighted_sum \div (PYTH_WEIGHT + SWITCHBOARD_WEIGHT + AI_WEIGHT)) % (U64_MAX + 1)

\* LiquidityPool::calculate_weighted_price
calculate_weighted_price(pool) ==
    LET sum1 == IF pool.pyth_price # None THEN pool.pyth_price * PYTH_WEIGHT ELSE 0
        w1 == IF pool.pyth_price # None THEN PYTH_WEIGHT ELSE 0
        sum2 == IF pool.switchboard_price # None
                THEN sum1 + pool.switchboard_price * SWITCHBOARD_WEIGHT ELSE sum1
        w2 == IF pool.switchboard_price # None THEN w1 + SWITCHBOARD_WEIGHT ELSE w1
        weighted_sum == IF pool.ai_price # None THEN sum2 + pool.ai_price * AI_WEIGHT ELSE sum2
        total_weight == IF pool.ai_price # None THEN w2 + AI_WEIGHT ELSE w2
    IN  IF total_weight = 0 THEN pool.oracle_price
        ELSE (weighted_sum \div total_weight) % (U64_MAX + 1)

\* the integer part of the square root of x, found between lo and hi
RECURSIVE isqrt(_, _, _)
isqrt(x, lo, hi) ==
    IF lo >= hi THEN lo
    ELSE LET mid == (lo + hi + 1) \div 2
         IN  IF mid * mid <= x THEN isqrt(x, mid, hi) ELSE isqrt(x, lo, mid - 1)

RECURSIVE SumSeq(_)
SumSeq(q) == IF q = <<>> THEN 0 ELSE Head(q) + SumSeq(Tail(q))

\* LiquidityPool::calculate_volatility: the standard deviation of the first
\* history_index prices times the price precision; the f64 product is cut to
\* its integer part and saturates when cast to u64
calculate_volatility(pool) ==
    IF pool.history_index = 0 THEN 0
    ELSE LET prices == [i \in 1..pool.history_index |-> pool.price_history[i]]
         IN  IF Len(prices) < 2 THEN 0
             ELSE LET mean == SumSeq(prices) \div Len(prices)
                      sq == [i \in 1..Len(prices) |->
                               LET diff == IF prices[i] > mean THEN prices[i] - mean
                                           ELSE mean - prices[i]
                               IN  diff * diff]
                      variance == SumSeq(sq) \div Len(prices)
                  IN  Min(isqrt(variance * ORACLE_PRICE_PRECISION * ORACLE_PRICE_PRECISION,
                                0, U64_MAX * ORACLE_PRICE_PRECISION),
                          U64_MAX)

\* LiquidityPool::calculate_dynamic_fee: the fee in bps, or None when the
\* division by a volatility_threshold of 0 panics
calculate_dynamic_fee(pool) ==
    IF ~pool.dynamic_fee_enabled THEN pool.fee_bps
    ELSE LET volatility == calculate_volatility(pool)
             base_fee == pool.fee_bps
         IN  IF volatility > pool.volatility_threshold /\ pool.volatility_threshold = 0
             THEN None
             ELSE LET volatility_multiplier ==
                          IF volatility > pool.volatility_threshold
                          THEN Min(MAX_VOLATILITY_MULTIPLIER,
                                   (volatility \div pool.volatility_threshold) % (U16_MAX + 1))
                          ELSE 1
                      dynamic_fee == base_fee * volatility_multiplier
                  IN  Min(dynamic_fee, MAX_DYNAMIC_FEE_BPS)

\* LiquidityPool::update_price_history (indices are 0-based in the source)
update_price_history(pool, new_price) ==
    [pool EXCEPT !.price_history[pool.history_index + 1] = new_price,
                 !.history_index = (pool.history_index + 1) % HISTORY_SLOTS]

\* variant: a price of exactly the maximum age counts as stale
is_oracle_stale_at_limit(pool, current_time) ==
    current_time - pool.last_oracle_update >= MAX_ORACLE_AGE_SECONDS

\* LiquidityPool::is_oracle_stale
is_oracle_stale(pool, current_time) ==
    LET age == current_time - pool.last_oracle_update
    IN  age > MAX_ORACLE_AGE_SECONDS

\* ------------------------------------------ barter-dex-program handlers
OracleKey == "oracle"

NoPool ==
    [is_initialized |-> FALSE, oracle_authority |-> NoKey, oracle_provider |-> "Pyth",
     oracle_price |-> 0, last_oracle_update |-> 0, price_confidence |-> 0,
     pyth_price |-> None, switchboard_price |-> None, ai_price |-> None,
     price_history |-> [i \in 1..HISTORY_SLOTS |-> 0], history_index |-> 0,
     total_liquidity_a |-> 0, total_liquidity_b |-> 0, fee_bps |-> 0,
     dynamic_fee_enabled |-> FALSE, volatility_threshold |-> 0,
     last_volatility_update |-> 0]

create_pool(w, args, current_time) ==
    IF w.pool.is_initialized THEN Err("AccountAlreadyInUse", w)
    ELSE Ok([w EXCEPT !.pool =
            [is_initialized |-> TRUE, oracle_authority |-> args.oracle_authority,
             oracle_provider |-> args.oracle_provider,
             oracle_price |-> ORACLE_PRICE_PRECISION,
             last_oracle_update |-> current_time, price_confidence |-> 0,
             pyth_price |-> None, switchboard_price |-> None, ai_price |-> None,
             price_history |-> [i \in 1..HISTORY_SLOTS |-> ORACLE_PRICE_PRECISION],
             history_index |-> 0,
             total_liquidity_a |-> 0, total_liquidity_b |-> 0,
             fee_bps |-> args.fee_bps,
             dynamic_fee_enabled |-> args.dynamic_fee_enabled,
             volatility_threshold |-> args.volatility_threshold,
             last_volatility_update |-> current_time]])

add_liquidity(w, amount_a, amount_b) ==
    IF ~w.pool.is_initialized THEN Err("AccountNotInitialized", w)
    ELSE LET a == token_transfer(w, "user_token_account_a", "vault_a", amount_a)
         IN  IF a.err # "Ok" THEN a
             ELSE token_transfer(a.w, "user_token_account_b", "vault_b", amount_b)

\* variant: the two directions of the conversion exchanged
swap_amount_out_inverted(a_to_b, amount_in, effective_price, fee_bps) ==
    LET amount_out_before_fee ==
            IF a_to_b
            THEN ((amount_in * ORACLE_PRICE_PRECISION) \div effective_price) % (U64_MAX + 1)
            ELSE ((amount_in * effective_price) \div ORACLE_PRICE_PRECISION) % (U64_MAX + 1)
        fee_amount == ((amount_out_before_fee * fee_bps) \div BPS_PRECISION) % (U64_MAX + 1)
    IN  checked_sub_u64(amount_out_before_fee, fee_amount)

\* swap, lines 160-185: the amount paid out, or the error code
swap_amount_out(a_to_b, amount_in, effective_price, fee_bps) ==
    LET amount_out_before_fee ==
            IF a_to_b
            THEN ((amount_in * effective_price) \div ORACLE_PRICE_PRECISION) % (U64_MAX + 1)
            ELSE ((amount_in * ORACLE_PRICE_PRECISION) \div effective_price) % (U64_MAX + 1)
        fee_amount == ((amount_out_before_fee * fee_bps) \div BPS_PRECISION) % (U64_MAX + 1)
    IN  checked_sub_u64(amount_out_before_fee, fee_amount)

\* swap, lines 216-223: the liquidity counters
swap_update_liquidity(w, a_to_b, amount_in, amount_out) ==
    LET inc == checked_add_u64(IF a_to_b THEN w.pool.total_liquidity_a
                               ELSE w.pool.total_liquidity_b, amount_in)
    IN  IF inc = None THEN Err("Overflow", w)
    ELSE LET w1 == IF a_to_b THEN [w EXCEPT !.pool.total_liquidity_a = inc]
                   ELSE [w EXCEPT !.pool.total_liquidity_b = inc]
             dec == checked_sub_u64(IF a_to_b THEN w1.pool.total_liquidity_b
                                    ELSE w1.pool.total_liquidity_a, amount_out)
         IN  IF dec = None THEN Err("Underflow", w1)
             ELSE Ok(IF a_to_b THEN [w1 EXCEPT !.pool.total_liquidity_b = dec]
                     ELSE [w1 EXCEPT !.pool.total_liquidity_a = dec])

\* swap; the pool account of Swap is not declared mut (lines 433-437), so the
\* pool record of a successful swap is not written back
swap(w, a_to_b, amount_in, min_amount_out, current_time) ==
    LET pool == w.pool
        source == IF a_to_b THEN "user_token_account_a" ELSE "user_token_account_b"
        dest == IF a_to_b THEN "user_token_account_b" ELSE "user_token_account_a"
        source_vault == IF a_to_b THEN "vault_a" ELSE "vault_b"
        dest_vault == IF a_to_b THEN "vault_b" ELSE "vault_a"
    IN  IF ~pool.is_initialized THEN Err("AccountNotInitialized", w)
    ELSE IF is_oracle_stale(pool, current_time) THEN Err("OraclePriceStale", w)
    ELSE LET effective_price == calculate_weighted_price(pool)
         IN  IF ~(effective_price > 0) THEN Err("NoValidPriceSources", w)
    ELSE LET fee_bps == calculate_dynamic_fee(pool)
         IN  IF fee_bps = None THEN Err("ProgramFailedToComplete", w)
    ELSE LET amount_out == swap_amount_out(a_to_b, amount_in, effective_price, fee_bps)
         IN  IF amount_out = None THEN Err("Underflow", w)
    ELSE IF ~(amount_out >= min_amount_out) THEN Err("SlippageExceeded", w)
    ELSE IF ~(w.tokens[dest_vault] >= amount_out) THEN Err("InsufficientLiquidity", w)
    ELSE LET t1 == token_transfer(w, source, source_vault, amount_in)
         IN  IF t1.err # "Ok" THEN t1
    ELSE LET t2 == token_transfer(t1.w, dest_vault, dest, amount_out)
         IN  IF t2.err # "Ok" THEN t2
    ELSE LET u == swap_update_liquidity(t2.w, a_to_b, amount_in, amount_out)
         IN  IF u.err # "Ok" THEN u
    ELSE Ok([u.w EXCEPT !.pool = pool])

\* variant: the average is taken before the new source prices are stored
update_oracle_price_early_average(w, signer, args, current_time) ==
    IF ~w.pool.is_initialized THEN Err("AccountNotInitialized", w)
    ELSE IF signer # w.pool.oracle_authority THEN Err("InvalidOracleAuthority", w)
    ELSE LET p1 == IF args.pyth_price # None
                   THEN [w.pool EXCEPT !.pyth_price = args.pyth_price] ELSE w.pool
             p2 == IF args.switchboard_price # None
                   THEN [p1 EXCEPT !.switchboard_price = args.switchboard_price] ELSE p1
             p3 == IF args.ai_price # None
                   THEN [p2 EXCEPT !.ai_price = args.ai_price] ELSE p2
             p4 == IF args.price_confidence # None
                   THEN [p3 EXCEPT !.price_confidence = args.price_confidence] ELSE p3
             weighted_price == calculate_weighted_price(w.pool)
             p5 == [p4 EXCEPT !.oracle_price = weighted_price,
                              !.last_oracle_update = current_time]
         IN  Ok([w EXCEPT !.pool = update_price_history(p5, weighted_price)])

update_oracle_price(w, signer, args, current_time) ==
    IF ~w.pool.is_initialized THEN Err("AccountNotInitialized", w)
    ELSE IF signer # w.pool.oracle_authority THEN Err("InvalidOracleAuthority", w)
    ELSE LET p1 == IF args.pyth_price # None
                   THEN [w.pool EXCEPT !.pyth_price = args.pyth_price] ELSE w.pool
             p2 == IF args.switchboard_price # None
                   THEN [p1 EXCEPT !.switchboard_price = args.switchboard_price] ELSE p1
             p3 == IF args.ai_price # None
                   THEN [p2 EXCEPT !.ai_price = args.ai_price] ELSE p2
             p4 == IF args.price_confidence # None
                   THEN [p3 EXCEPT !.price_confidence = args.price_confidence] ELSE p3
             weighted_price == calculate_weighted_price(p4)
             p5 == [p4 EXCEPT !.oracle_price = weighted_price,
                              !.last_oracle_update = current_time]
         IN  Ok([w EXCEPT !.pool = update_price_history(p5, weighted_price)])

update_pool_config(w, signer, fee_bps, dynamic_fee_enabled, volatility_threshold, current_time) ==
    IF ~w.pool.is_initialized THEN Err("AccountNotInitialized", w)
    ELSE IF signer # w.pool.oracle_authority THEN Err("InvalidOracleAuthority", w)
    ELSE Ok([w EXCEPT !.pool.fee_bps = fee_bps,
                      !.pool.dynamic_fee_enabled = dynamic_fee_enabled,
                      !.pool.volatility_threshold = volatility_threshold,
                      !.pool.last_volatility_update = current_time])

\* variant: pausing withdraws the pool's prices, which stops every swap
emergency_pause_enforced(w, signer, paused) ==
    IF ~w.pool.is_initialized THEN Err("AccountNotInitialized", w)
    ELSE IF signer # w.pool.oracle_authority THEN Err("InvalidOracleAuthority", w)
    ELSE IF paused
         THEN Ok([w EXCEPT !.pool.oracle_price = 0, !.pool.pyth_price = None,
                           !.pool.switchboard_price = None, !.pool.ai_price = None])
    ELSE Ok(w)

emergency_pause(w, signer, paused) ==
    IF ~w.pool.is_initialized THEN Err("AccountNotInitialized", w)
    ELSE IF signer # w.pool.oracle_authority THEN Err("InvalidOracleAuthority", w)
    ELSE Ok(w)

\* ------------------------------------------------------------ the state
VARIABLES now, launch, vesting, lamports, tokens, mint_supply,
          affiliate_info, analytics, pool, last, rate_changed_at, emitted

accounts == <<launch, vesting, lamports, tokens, mint_supply, affiliate_info, analytics, pool>>
vars == <<now, launch, vesting, lamports, tokens, mint_supply, affiliate_info, analytics,
          pool, last, rate_changed_at, emitted>>

World ==
    [launch |-> launch, vesting |-> vesting, lamports |-> lamports,
     tokens |-> tokens, mint_supply |-> mint_supply,
     affiliate_info |-> affiliate_info, analytics |-> analytics, pool |-> pool]

\* The accounts an instruction leaves behind: the handler's writes when it
\* returns Ok, the accounts as they were when it returns an error.
\* variant: the handler's writes are kept whatever it returns
CommitPartial(old, r) == r.w

Commit(old, r) == IF r.err = "Ok" THEN r.w ELSE old

\* one instruction: op names it, r is the handler's result; last records the
\* outcome of the latest step, rate_changed_at the instant of the latest
\* change of an existing affiliate record's commission_rate_bps, emitted the
\* event the latest step emitted (None when it emitted none)
Apply(op, r, cpi) ==
    LET c == Commit(World, r)
    IN  /\ launch' = c.launch
        /\ vesting' = c.vesting
        /\ lamports' = c.lamports
        /\ tokens' = c.tokens
        /\ mint_supply' = c.mint_supply
        /\ affiliate_info' = c.affiliate_info
        /\ analytics' = c.analytics
        /\ pool' = c.pool
        /\ last' = [op |-> op, err |-> r.err, cpi |-> cpi]
        /\ rate_changed_at' =
              IF affiliate_info.is_initialized
                 /\ c.affiliate_info.commission_rate_bps # affiliate_info.commission_rate_bps
              THEN now ELSE rate_changed_at
        /\ emitted' = IF r.err = "Ok" /\ "event" \in DOMAIN r THEN r.event ELSE None
        /\ UNCHANGED now

Init ==
    /\ now = 0
    /\ launch = NoLaunch
    /\ vesting = NoVesting
    /\ lamports = [a \in {"buyer", "sol_vault", "platform_fee_recipient", "authority"} |->
                     IF a = "buyer" THEN BuyerLamports ELSE 0]
    /\ tokens = [a \in {"buyer_token_account", "vesting_schedule",
                        "affiliate_token_account", "user_token_account_a",
                        "user_token_account_b", "vault_a", "vault_b"} |->
                   IF a \in {"user_token_account_a", "user_token_account_b"}
                   THEN UserTokens ELSE 0]
    /\ mint_supply = 0
    /\ affiliate_info = NoAffiliateInfo
    /\ analytics = NoAnalytics
    /\ pool = NoPool
    /\ last = [op |-> "Init", err |-> "Ok", cpi |-> "NotCalled"]
    /\ rate_changed_at = None
    /\ emitted = None

\* the clock supplied by the runtime: it never goes back
Tick(T) ==
    /\ \E t \in T : t > now /\ t <= MaxTime /\ now' = t
    /\ last' = [op |-> "Tick", err |-> "Ok", cpi |-> "NotCalled"]
    /\ emitted' = None
    /\ UNCHANGED <<accounts, rate_changed_at>>

CreateLaunch(args) == Apply("create_launch", create_launch(World, args, now), "NotCalled")

BuyTokens(sol_amount, affiliate_key, enable_vesting) ==
    LET r == buy_tokens(World, sol_amount, affiliate_key, enable_vesting, now)
    IN  Apply("buy_tokens", r, r.cpi)

WithdrawSol(signer) == Apply("withdraw_sol", withdraw_sol(World, signer), "NotCalled")

ClaimVestedTokens(signer) ==
    Apply("claim_vested_tokens", claim_vested_tokens(World, signer, now), "NotCalled")

UpdateLaunch(signer, args) ==
    Apply("update_launch", update_launch(World, signer, args, now), "NotCalled")

RegisterAffiliate(args) ==
    Apply("register_affiliate", register_affiliate(World, args, now), "NotCalled")

SetCommissionRate(signer, new_rate_bps) ==
    Apply("set_commission_rate", set_commission_rate(World, signer, new_rate_bps), "NotCalled")

UpdateCommissionRateAi(args) ==
    Apply("update_commission_rate_ai", update_commission_rate_ai(World, args, now), "NotCalled")

GetAiSuggestedRate ==
    Apply("get_ai_suggested_rate", get_ai_suggested_rate(World, now), "NotCalled")

UpdateAnalytics(args) ==
    Apply("update_analytics", update_analytics(World, args, now), "NotCalled")

CreatePool(args) == Apply("create_pool", create_pool(World, args, now), "NotCalled")

AddLiquidity(amount_a, amount_b) ==
    Apply("add_liquidity", add_liquidity(World, amount_a, amount_b), "NotCalled")

Swap(a_to_b, amount_in, min_amount_out) ==
    Apply("swap", swap(World, a_to_b, amount_in, min_amount_out, now), "NotCalled")

UpdateOraclePrice(signer, args) ==
    Apply("update_oracle_price", update_oracle_price(World, signer, args, now), "NotCalled")

UpdatePoolConfig(signer, fee_bps, dynamic_fee_enabled, volatility_threshold) ==
    Apply("update_pool_config",
          update_pool_config(World, signer, fee_bps, dynamic_fee_enabled,
                             volatility_threshold, now),
          "NotCalled")

EmergencyPause(signer, paused) ==
    Apply("emergency_pause", emergency_pause(World, signer, paused), "NotCalled")

\* ------------------------------------------------- inputs of the model
BaseLaunchArgs ==
    [pricing_model |-> "FixedPrice", initial_price |-> 2, slope |-> 0,
     max_tokens |-> U64_MAX, launch_start_time |-> 0, launch_end_time |-> 172800,
     vesting_enabled |-> FALSE, vesting_duration_seconds |-> 0,
     vesting_cliff_seconds |-> 0, anti_bot_level |-> "None",
     min_purchase_amount |-> 0, max_purchase_amount |-> 0,
     purchase_cooldown_seconds |-> 0, affiliate_fee_bps |-> 0,
     platform_fee_bps |-> 0]

AffiliateKeys == {NoKey, AffiliateKey, "other"}

BaseRegisterArgs ==
    [parent_affiliate |-> NoKey, referral_level |-> 1, rate_caps_enabled |-> FALSE,
     max_commission_rate_bps |-> 0, min_commission_rate_bps |-> 0]

\* ---- Spec: the sale of one launch (pricing, supply, window, withdrawal)
LaunchArgs ==
    {[BaseLaunchArgs EXCEPT !.max_tokens = 150],
     [BaseLaunchArgs EXCEPT !.platform_fee_bps = 2000, !.affiliate_fee_bps = 2000],
     [BaseLaunchArgs EXCEPT !.platform_fee_bps = 2001],
     [BaseLaunchArgs EXCEPT !.initial_price = 0],
     [BaseLaunchArgs EXCEPT !.pricing_model = "LinearBondingCurve",
                            !.initial_price = 10, !.slope = 1, !.max_tokens = 110],
     [BaseLaunchArgs EXCEPT !.pricing_model = "ExponentialBondingCurve", !.slope = 2],
     [BaseLaunchArgs EXCEPT !.pricing_model = "DutchAuction", !.initial_price = 2,
                            !.slope = 1]}
SolAmounts == {0, 20, 100}
UpdateLaunchArgs ==
    {[new_end_time |-> e, new_max_tokens |-> m,
      new_min_purchase_amount |-> None, new_max_purchase_amount |-> None] :
        e \in {None, MaxTime}, m \in {None, 50}}
    \cup
    {[new_end_time |-> 86400, new_max_tokens |-> None,
      new_min_purchase_amount |-> 1, new_max_purchase_amount |-> 20]}
Times == {86400, MaxTime}

Next ==
    \/ Tick(Times)
    \/ \E args \in LaunchArgs : CreateLaunch(args)
    \/ RegisterAffiliate(BaseRegisterArgs)
    \/ \E s \in SolAmounts, k \in AffiliateKeys : BuyTokens(s, k, FALSE)
    \/ \E signer \in {AuthorityKey, "other"}, args \in UpdateLaunchArgs : UpdateLaunch(signer, args)

Spec == Init /\ [][Next]_vars

\* ---- SpecCommission: purchases through an affiliate and the affiliate's
\* own instructions
CommissionLaunchArgs ==
    [BaseLaunchArgs EXCEPT !.initial_price = 5, !.platform_fee_bps = 1000,
                           !.affiliate_fee_bps = 500]
RegisterAffiliateArgs ==
    {BaseRegisterArgs,
     [BaseRegisterArgs EXCEPT !.rate_caps_enabled = TRUE,
                              !.min_commission_rate_bps = 100,
                              !.max_commission_rate_bps = 500],
     [BaseRegisterArgs EXCEPT !.referral_level = 6],
     [BaseRegisterArgs EXCEPT !.referral_level = 0],
     [BaseRegisterArgs EXCEPT !.parent_affiliate = AffiliateKey]}
SetRates == {0, 10000, 10001}
UpdateCommissionRateArgs ==
    {[new_rate_bps |-> r, ai_suggested |-> TRUE] : r \in {49, 300, 2000}}
UpdateAnalyticsArgs ==
    {[volume |-> U64_MAX, clicks |-> 1], [volume |-> 10, clicks |-> U32_MAX]}
CommissionSolAmounts == {50}
CommissionTimes == {86400}

NextCommission ==
    \/ Tick(CommissionTimes)
    \/ CreateLaunch(CommissionLaunchArgs)
    \/ \E args \in RegisterAffiliateArgs : RegisterAffiliate(args)
    \/ \E signer \in {AffiliateKey, "other"}, r \in SetRates : SetCommissionRate(signer, r)
    \/ \E args \in UpdateCommissionRateArgs : UpdateCommissionRateAi(args)
    \/ \E args \in UpdateAnalyticsArgs : UpdateAnalytics(args)
    \/ \E s \in CommissionSolAmounts, k \in AffiliateKeys, v \in BOOLEAN : BuyTokens(s, k, v)

SpecCommission == Init /\ [][NextCommission]_vars

\* ---- SpecVesting: vested purchases and claims
VestingLaunchArgs ==
    {[BaseLaunchArgs EXCEPT !.initial_price = 10, !.vesting_enabled = TRUE,
                            !.vesting_duration_seconds = d, !.vesting_cliff_seconds = c] :
        d \in {86400}, c \in {0, 43200, 64800, 86400}}
    \cup
    {[BaseLaunchArgs EXCEPT !.initial_price = 10, !.vesting_enabled = TRUE,
                            !.vesting_duration_seconds = 86399],
     [BaseLaunchArgs EXCEPT !.initial_price = 10, !.vesting_enabled = TRUE,
                            !.vesting_duration_seconds = 86400,
                            !.vesting_cliff_seconds = 86401]}
VestingSolAmounts == {40, 100}
VestingTimes == {43199, 43200, 64800, 86399, 86400, 129600}

NextVesting ==
    \/ Tick(VestingTimes)
    \/ \E args \in VestingLaunchArgs : CreateLaunch(args)
    \/ RegisterAffiliate(BaseRegisterArgs)
    \/ \E s \in VestingSolAmounts : BuyTokens(s, NoKey, TRUE)
    \/ \E signer \in {BuyerKey, "other"} : ClaimVestedTokens(signer)

SpecVesting == Init /\ [][NextVesting]_vars

\* ---- SpecAtomic: every instruction of the three programs at one instant,
\* with the inputs that make a handler fail after it has written
AtomicUpdateLaunchArgs ==
    {[new_end_time |-> MaxTime, new_max_tokens |-> 50,
      new_min_purchase_amount |-> None, new_max_purchase_amount |-> None],
     [new_end_time |-> None, new_max_tokens |-> None,
      new_min_purchase_amount |-> 1, new_max_purchase_amount |-> None]}
AtomicAnalyticsArgs ==
    {[volume |-> U64_MAX, clicks |-> 1], [volume |-> 0, clicks |-> U32_MAX]}
CreatePoolArgs ==
    [oracle_authority |-> OracleKey, oracle_provider |-> "Hybrid", fee_bps |-> 30,
     dynamic_fee_enabled |-> TRUE, volatility_threshold |-> 5]
UpdatePriceArgs ==
    {[pyth_price |-> 2 * ORACLE_PRICE_PRECISION, switchboard_price |-> None,
      ai_price |-> None, price_confidence |-> 1]}
LiquidityAmounts == {<<20, 20>>, <<20, UserTokens + 1>>}

NextAtomic ==
    \/ CreateLaunch(CommissionLaunchArgs)
    \/ RegisterAffiliate(BaseRegisterArgs)
    \/ \E k \in {NoKey, AffiliateKey} : BuyTokens(50, k, k = NoKey)
    \/ WithdrawSol(AuthorityKey)
    \/ ClaimVestedTokens(BuyerKey)
    \/ \E args \in AtomicUpdateLaunchArgs : UpdateLaunch(AuthorityKey, args)
    \/ SetCommissionRate(AffiliateKey, MAX_SET_RATE_BPS)
    \/ UpdateCommissionRateAi([new_rate_bps |-> MIN_RATE_BPS, ai_suggested |-> TRUE])
    \/ \E args \in AtomicAnalyticsArgs : UpdateAnalytics(args)
    \/ CreatePool(CreatePoolArgs)
    \/ \E l \in LiquidityAmounts : AddLiquidity(l[1], l[2])
    \/ \E args \in UpdatePriceArgs :
          pool.history_index < MaxPriceUpdates /\ UpdateOraclePrice(OracleKey, args)
    \/ UpdatePoolConfig(OracleKey, 20000, FALSE, 0)
    \/ EmergencyPause(OracleKey, TRUE)
    \/ \E d \in BOOLEAN : Swap(d, 5, 0)

SpecAtomic == Init /\ [][NextAtomic]_vars

\* the pool alone, with a clock that passes the oracle's maximum age: prices
\* of 0, below and above the precision, from one and from two sources
PoolPriceUpdates == 2
PoolPriceArgs ==
    {[pyth_price |-> 0, switchboard_price |-> None, ai_price |-> None,
      price_confidence |-> None],
     [pyth_price |-> None, switchboard_price |-> None,
      ai_price |-> ORACLE_PRICE_PRECISION \div 10, price_confidence |-> None],
     [pyth_price |-> (11 * ORACLE_PRICE_PRECISION) \div 10,
      switchboard_price |-> (12 * ORACLE_PRICE_PRECISION) \div 10,
      ai_price |-> None, price_confidence |-> 1]}
PoolSigners == {OracleKey, "other"}
PoolTimes == {MAX_ORACLE_AGE_SECONDS, MAX_ORACLE_AGE_SECONDS + 1,
              2 * MAX_ORACLE_AGE_SECONDS, 2 * MAX_ORACLE_AGE_SECONDS + 1}
PoolAmountsIn == {5}
PoolMinAmountsOut == {0, 1, 6}

NextPool ==
    \/ Tick(PoolTimes)
    \/ CreatePool(CreatePoolArgs)
    \/ AddLiquidity(20, 20)
    \/ \E signer \in PoolSigners, args \in PoolPriceArgs :
          pool.history_index < PoolPriceUpdates /\ UpdateOraclePrice(signer, args)
    \/ UpdatePoolConfig(OracleKey, 30, TRUE, 0)
    \/ EmergencyPause(OracleKey, TRUE)
    \/ \E d \in BOOLEAN, amount_in \in PoolAmountsIn, min_amount_out \in PoolMinAmountsOut :
          Swap(d, amount_in, min_amount_out)

SpecPool == Init /\ [][NextPool]_vars

\* ---- SpecAntiBot: one launch at each anti-bot level, purchases below,
\* within and above the purchase limits, before and after the cooldown
PurchaseCooldown == 60
AntiBotLaunchArgs ==
    {[BaseLaunchArgs EXCEPT !.initial_price = 5, !.anti_bot_level = l,
                            !.min_purchase_amount = 20, !.max_purchase_amount = 50,
                            !.purchase_cooldown_seconds = PurchaseCooldown] :
        l \in AntiBotLevels}
AntiBotSolAmounts == {10, 30, 60}
AntiBotTimes == {PurchaseCooldown - 1, PurchaseCooldown,
                 2 * PurchaseCooldown - 1, 2 * PurchaseCooldown}

NextAntiBot ==
    \/ Tick(AntiBotTimes)
    \/ \E args \in AntiBotLaunchArgs : CreateLaunch(args)
    \/ RegisterAffiliate(BaseRegisterArgs)
    \/ \E s \in AntiBotSolAmounts : BuyTokens(s, NoKey, FALSE)

SpecAntiBot == Init /\ [][NextAntiBot]_vars

\* ---- SpecWindow: a launch that opens after its creation, a clock that
\* passes both ends of the window, an authority who moves the end
WindowStart == 86400
WindowEnd == 172800
WindowLaunchArgs ==
    [BaseLaunchArgs EXCEPT !.launch_start_time = WindowStart, !.launch_end_time = WindowEnd]
WindowUpdateArgs ==
    {[new_end_time |-> e, new_max_tokens |-> None,
      new_min_purchase_amount |-> None, new_max_purchase_amount |-> None] :
        e \in {WindowStart + 1, WindowEnd + 1}}
WindowSolAmounts == {0, 20}
WindowTimes == {WindowStart - 1, WindowStart, WindowStart + 1, WindowStart + 2,
                WindowEnd, WindowEnd + 1, WindowEnd + 2}

NextWindow ==
    \/ Tick(WindowTimes)
    \/ CreateLaunch(WindowLaunchArgs)
    \/ RegisterAffiliate(BaseRegisterArgs)
    \/ \E s \in WindowSolAmounts : BuyTokens(s, NoKey, FALSE)
    \/ \E args \in WindowUpdateArgs : UpdateLaunch(AuthorityKey, args)

SpecWindow == Init /\ [][NextWindow]_vars

\* ---- SpecDutch: Dutch auctions with and without a minimum price, a clock
\* that stops at the quarters of the window and just past its end, purchases
DutchLaunchArgs ==
    {[BaseLaunchArgs EXCEPT !.pricing_model = "DutchAuction",
                            !.launch_start_time = WindowStart,
                            !.launch_end_time = WindowEnd,
                            !.initial_price = p, !.slope = m] :
        p \in {7, 100}, m \in {0, 40}}
DutchTimes ==
    {WindowStart + (k * (WindowEnd - WindowStart)) \div 4 : k \in 0..4}
        \cup {WindowStart + 1, WindowEnd - 1, WindowEnd + 1}

NextDutch ==
    \/ Tick(DutchTimes)
    \/ \E args \in DutchLaunchArgs : CreateLaunch(args)
    \/ RegisterAffiliate(BaseRegisterArgs)
    \/ BuyTokens(50, NoKey, FALSE)

SpecDutch == Init /\ [][NextDutch]_vars

\* ---- SpecEndTime: a launch that starts later, whose authority moves the
\* end before the start, onto it and past the old end, before and after the
\* launch has started
EndTimeUpdateArgs ==
    {[new_end_time |-> e, new_max_tokens |-> None,
      new_min_purchase_amount |-> None, new_max_purchase_amount |-> None] :
        e \in {WindowStart - 1, WindowStart, WindowEnd + 1}}
EndTimes == {1, WindowStart - 1, WindowStart, WindowEnd}

NextEndTime ==
    \/ Tick(EndTimes)
    \/ CreateLaunch(WindowLaunchArgs)
    \/ RegisterAffiliate(BaseRegisterArgs)
    \/ BuyTokens(20, NoKey, FALSE)
    \/ \E args \in EndTimeUpdateArgs : UpdateLaunch(AuthorityKey, args)

SpecEndTime == Init /\ [][NextEndTime]_vars

\* ---- SpecRate: one affiliate, with and without caps of its own, rate
\* updates just before and at the end of each update interval
RateRegisterArgs ==
    {BaseRegisterArgs,
     [BaseRegisterArgs EXCEPT !.rate_caps_enabled = TRUE,
                              !.min_commission_rate_bps = 100,
                              !.max_commission_rate_bps = 500]}
RateUpdates == {MIN_RATE_BPS - 1, MIN_RATE_BPS, 99, 100, 500, 501, MAX_RATE_BPS, MAX_RATE_BPS + 1}
RateTimes == {RATE_UPDATE_INTERVAL - 1, RATE_UPDATE_INTERVAL,
              2 * RATE_UPDATE_INTERVAL - 1, 2 * RATE_UPDATE_INTERVAL}

NextRate ==
    \/ Tick(RateTimes)
    \/ \E args \in RateRegisterArgs : RegisterAffiliate(args)
    \/ \E rate \in RateUpdates :
          UpdateCommissionRateAi([new_rate_bps |-> rate, ai_suggested |-> TRUE])

SpecRate == Init /\ [][NextRate]_vars

\* referred purchases and click reports: up to seven referrals against one
\* to fifteen clicks, so that the conversion rate passes 65535
ConversionAnalyticsArgs ==
    {[volume |-> 0, clicks |-> c] : c \in {1, U32_MAX}}

NextConversion ==
    \/ CreateLaunch(CommissionLaunchArgs)
    \/ RegisterAffiliate(BaseRegisterArgs)
    \/ BuyTokens(12, AffiliateKey, FALSE)
    \/ \E args \in ConversionAnalyticsArgs : UpdateAnalytics(args)
    \/ GetAiSuggestedRate

SpecConversion == Init /\ [][NextConversion]_vars

\* the two ring buffers, each filled past its end: most appends write the
\* plain value, and a marked value (a volume of 90 with one click, a doubled
\* price) may be written into the first two slots, so that a lap later the
\* overwritten slot and its untouched neighbour can be told apart; both
\* prices differ from the price create_pool fills the history with
RingMarkedSlots == {0, 1}
RingPlainPrice == ORACLE_PRICE_PRECISION + 2
RingMarkedPrice == 2 * ORACLE_PRICE_PRECISION
RingAnalyticsArgs == {[volume |-> 0, clicks |-> 0], [volume |-> 90, clicks |-> 1]}
RingPriceArgs ==
    {[pyth_price |-> p, switchboard_price |-> None, ai_price |-> None,
      price_confidence |-> None] :
        p \in {RingPlainPrice, RingMarkedPrice}}

NextRing ==
    \/ CreatePool(CreatePoolArgs)
    \/ RegisterAffiliate(BaseRegisterArgs)
    \/ \E args \in RingAnalyticsArgs :
          /\ args.volume # 0 => analytics.current_day_index \in RingMarkedSlots
          /\ UpdateAnalytics(args)
    \/ \E args \in RingPriceArgs :
          /\ args.pyth_price # RingPlainPrice => pool.history_index \in RingMarkedSlots
          /\ UpdateOraclePrice(OracleKey, args)

SpecRing == Init /\ [][NextRing]_vars

\* ------------------------------------------------------------- claims
\* the purchase of sol_amount passes every check of buy_tokens that comes
\* before the supply check of lines 209-212
BuyReachesSupplyCheck(sol_amount) ==
    /\ launch.is_initialized /\ affiliate_info.is_initialized
    /\ sol_amount > 0
    /\ is_launch_active(launch, now)
    /\ ~is_max_supply_reached(launch)
    /\ validate_purchase_amount(launch, sol_amount, now) = "Ok"
    /\ calculate_current_price(launch, now) > 0
    /\ calculate_tokens_to_mint(sol_amount, calculate_current_price(launch, now)) > 0

TokensFor(sol_amount) ==
    calculate_tokens_to_mint(sol_amount, calculate_current_price(launch, now))

\* C1 (as amended): tokens_sold <= max_tokens in every reachable state; a
\* purchase that would push tokens_sold past max_tokens is rejected, with
\* MaxSupplyReached, or with Overflow when tokens_sold + tokens_to_mint does
\* not fit the 64-bit counter; update_launch with new_max_tokens < tokens_sold
\* is rejected.
C1_TokensSoldBounded ==
    /\ launch.tokens_sold <= launch.max_tokens
    /\ \A s \in SolAmounts, k \in AffiliateKeys, v \in BOOLEAN :
          (BuyReachesSupplyCheck(s) /\ launch.tokens_sold + TokensFor(s) > launch.max_tokens)
          => buy_tokens(World, s, k, v, now).err =
                IF launch.tokens_sold + TokensFor(s) > U64_MAX THEN "Overflow"
                ELSE "MaxSupplyReached"
    /\ \A args \in UpdateLaunchArgs :
          (launch.is_initialized /\ args.new_max_tokens # None
              /\ args.new_max_tokens < launch.tokens_sold)
          => update_launch(World, AuthorityKey, args, now).err # "Ok"

\* C1 as stated: every purchase that would push tokens_sold past max_tokens
\* is rejected with MaxSupplyReached.
C1_RejectedWithMaxSupplyReached ==
    \A s \in SolAmounts, k \in AffiliateKeys, v \in BOOLEAN :
        (BuyReachesSupplyCheck(s) /\ launch.tokens_sold + TokensFor(s) > launch.max_tokens)
        => buy_tokens(World, s, k, v, now).err = "MaxSupplyReached"

\* a purchase has been rejected at the supply check of a launch that has sold
\* tokens and is not sold out
C1_Witness ==
    /\ last.op = "buy_tokens" /\ last.err = "MaxSupplyReached"
    /\ launch.tokens_sold > 0 /\ launch.tokens_sold < launch.max_tokens

\* C4 as stated: inside the launch window and below max_tokens the price that
\* calculate_current_price returns is greater than 0, for every launch that
\* create_launch accepted.
C4_PricePositive ==
    (launch.is_initialized /\ is_launch_active(launch, now)
        /\ launch.tokens_sold < launch.max_tokens)
    => LET p == calculate_current_price(launch, now) IN p = None \/ p > 0

C2_CommissionFailureUndoesPurchase ==
    [][(last'.op = "buy_tokens" /\ last'.cpi \notin {"Ok", "NotCalled"})
        => /\ last'.err # "Ok"
           /\ launch'.tokens_sold = launch.tokens_sold
           /\ launch'.total_sol_collected = launch.total_sol_collected
           /\ launch'.total_fees_collected = launch.total_fees_collected
           /\ launch'.purchase_count = launch.purchase_count
           /\ launch'.last_purchase_timestamp = launch.last_purchase_timestamp
           /\ lamports' = lamports
           /\ tokens' = tokens
           /\ mint_supply' = mint_supply
           /\ vesting' = vesting
           /\ affiliate_info' = affiliate_info]_vars

\* a purchase naming the affiliate has failed inside process_commission, on a
\* launch that takes a platform fee, after the SOL transfers and the mint
C2_Witness ==
    /\ last.op = "buy_tokens" /\ last.cpi \in {"Overflow", "TokenOverflow"}
    /\ launch.platform_fee_bps > 0
    /\ lamports["buyer"] >= 50

PurchasedTokens == {0, 1, 7, 10 * TOKEN_DECIMALS, U64_MAX}

\* C8: process_commission(purchased_tokens) mints to the affiliate exactly
\* floor(purchased_tokens * commission_rate_bps / 10000) with the rate stored
\* in the affiliate's record, and to nobody else: rate 0 gives 0, rate 10000
\* gives purchased_tokens, rate 1000 on 10 whole tokens gives 1 whole token.
C8_CommissionAmount ==
    affiliate_info.is_initialized
    => \A p \in PurchasedTokens :
          LET r == process_commission(World, p, now)
              rate == affiliate_info.commission_rate_bps
              minted == r.w.tokens["affiliate_token_account"]
                            - tokens["affiliate_token_account"]
          IN  r.err = "Ok"
              => /\ minted = (p * rate) \div 10000
                 /\ r.w.mint_supply = mint_supply + minted
                 /\ \A a \in DOMAIN tokens \ {"affiliate_token_account"} :
                        r.w.tokens[a] = tokens[a]
                 /\ rate = 0 => minted = 0
                 /\ rate = 10000 => minted = p
                 /\ (rate = 1000 /\ p = 10 * TOKEN_DECIMALS) => minted = TOKEN_DECIMALS

\* the affiliate, at the default rate, has been paid 1 whole token for a
\* purchase of 10 whole tokens
C8_Witness ==
    /\ last.op = "buy_tokens" /\ last.err = "Ok" /\ last.cpi = "Ok"
    /\ affiliate_info.commission_rate_bps = DEFAULT_COMMISSION_RATE_BPS
    /\ launch.tokens_sold = 10 * TOKEN_DECIMALS
    /\ tokens["affiliate_token_account"] = TOKEN_DECIMALS

\* C10 as stated: every affiliate record has MIN_RATE_BPS <=
\* commission_rate_bps <= MAX_RATE_BPS and, when rate_caps_enabled, a rate
\* between its own caps.
C10_RateWithinBounds ==
    affiliate_info.is_initialized
    => /\ affiliate_info.commission_rate_bps >= MIN_RATE_BPS
       /\ affiliate_info.commission_rate_bps <= MAX_RATE_BPS
       /\ affiliate_info.rate_caps_enabled
            => /\ affiliate_info.commission_rate_bps >= affiliate_info.min_commission_rate_bps
               /\ affiliate_info.commission_rate_bps <= affiliate_info.max_commission_rate_bps

ProbeTimes == VestingTimes \cup {0, 21600, MaxTime}

\* C6 as stated: for a record with 0 <= cliff <= duration the vested amount
\* is non-decreasing in time and never exceeds total_amount, and
\* claimed_amount <= vested(now) <= total_amount.
C6_VestedMonotoneBounded ==
    (vesting.beneficiary # NoKey /\ 0 <= vesting.cliff_seconds
        /\ vesting.cliff_seconds <= vesting.duration_seconds)
    => /\ \A t1, t2 \in ProbeTimes :
             (vesting.start_time <= t1 /\ t1 <= t2)
             => /\ calculate_vested_amount(vesting, t1) <= calculate_vested_amount(vesting, t2)
                /\ calculate_vested_amount(vesting, t2) <= vesting.total_amount
       /\ vesting.claimed_amount <= calculate_vested_amount(vesting, now)
       /\ calculate_vested_amount(vesting, now) <= vesting.total_amount

\* the vested amount as the specification writes it
VestedBySpec(v, t) ==
    IF t < v.start_time + v.cliff_seconds THEN 0
    ELSE IF t >= v.start_time + v.duration_seconds THEN v.total_amount
    ELSE (v.total_amount * (t - v.start_time)) \div (v.duration_seconds - v.cliff_seconds)

\* C7 as stated: calculate_vested_amount is 0 before the cliff, total_amount
\* from start + duration on and floor(total_amount * (t - start) / (duration -
\* cliff)) in between; claim_vested_tokens pays exactly vested(now) -
\* claimed_amount, adds it to claimed_amount and stamps last_claim_time, and
\* is rejected with NoTokensToClaim when the difference is 0.
C7_VestedFormulaAndClaim ==
    vesting.beneficiary # NoKey
    => /\ \A t \in ProbeTimes :
             t >= vesting.start_time
             => calculate_vested_amount(vesting, t) = VestedBySpec(vesting, t)
       /\ LET r == claim_vested_tokens(World, BuyerKey, now)
               d == VestedBySpec(vesting, now) - vesting.claimed_amount
           IN  /\ d = 0 => r.err = "NoTokensToClaim"
               /\ r.err = "Ok"
                  => /\ r.w.tokens["buyer_token_account"] = tokens["buyer_token_account"] + d
                     /\ r.w.tokens["vesting_schedule"] = tokens["vesting_schedule"] - d
                     /\ r.w.vesting.claimed_amount = vesting.claimed_amount + d
                     /\ r.w.vesting.last_claim_time = now

C11_RateChangesDayApart ==
    [][(affiliate_info.is_initialized /\ rate_changed_at # None
           /\ affiliate_info'.commission_rate_bps # affiliate_info.commission_rate_bps)
        => now - rate_changed_at >= RATE_UPDATE_INTERVAL]_vars

\* C12: a swap on a pool whose oracle price is more than
\* MAX_ORACLE_AGE_SECONDS old fails with OraclePriceStale and moves no token;
\* at an age of exactly MAX_ORACLE_AGE_SECONDS it is not rejected for
\* staleness; no swap changes last_oracle_update.
C12_StaleOracleRejected ==
    [][(last'.op = "swap" /\ pool.is_initialized)
        => /\ now - pool.last_oracle_update > MAX_ORACLE_AGE_SECONDS
                => last'.err = "OraclePriceStale" /\ tokens' = tokens
           /\ now - pool.last_oracle_update = MAX_ORACLE_AGE_SECONDS
                => last'.err # "OraclePriceStale"
           /\ pool'.last_oracle_update = pool.last_oracle_update]_vars

\* a swap that would have gone through to the transfers is rejected one
\* second after the maximum age, on a price that an update had refreshed
C12_Witness ==
    /\ last.op = "swap" /\ last.err = "OraclePriceStale"
    /\ pool.last_oracle_update = MAX_ORACLE_AGE_SECONDS
    /\ now - pool.last_oracle_update = MAX_ORACLE_AGE_SECONDS + 1
    /\ tokens["vault_a"] > 0 /\ tokens["vault_b"] > 0
    /\ calculate_weighted_price(pool) > 0

\* the amount a swap of amount_in pays out at the pool's present prices and
\* fee, as the specification words it: the converted amount less the fee
AmountOutBySpec(a_to_b, amount_in) ==
    LET price == calculate_weighted_price(pool)
        before == IF a_to_b THEN (amount_in * price) \div ORACLE_PRICE_PRECISION
                  ELSE (amount_in * ORACLE_PRICE_PRECISION) \div price
    IN  before - (before * calculate_dynamic_fee(pool)) \div BPS_PRECISION

\* the swap gets as far as computing its amount_out: the pool exists, its
\* price is fresh and positive, and the fee computation completes
SwapComputesAmount ==
    /\ pool.is_initialized /\ ~is_oracle_stale(pool, now)
    /\ calculate_weighted_price(pool) > 0
    /\ calculate_dynamic_fee(pool) \in 0..BPS_PRECISION

DestVault(a_to_b) == IF a_to_b THEN "vault_b" ELSE "vault_a"

\* a rejected swap leaves every token balance, the liquidity counters and the
\* price history as they were; a successful one has paid out amount_out
SwapOutcome(a_to_b, amount_in, min_amount_out) ==
    LET r == swap(World, a_to_b, amount_in, min_amount_out, now)
        after == Commit(World, r)
        dest == IF a_to_b THEN "user_token_account_b" ELSE "user_token_account_a"
    IN  /\ r.err \in {"SlippageExceeded", "InsufficientLiquidity", "NoValidPriceSources"}
            => /\ r.w.tokens = tokens /\ after.tokens = tokens
               /\ after.pool.total_liquidity_a = pool.total_liquidity_a
               /\ after.pool.total_liquidity_b = pool.total_liquidity_b
               /\ after.pool.price_history = pool.price_history
               /\ after.pool.history_index = pool.history_index
        /\ r.err = "Ok"
            => /\ SwapComputesAmount
               /\ AmountOutBySpec(a_to_b, amount_in) >= min_amount_out
               /\ after.tokens[dest] = tokens[dest] + AmountOutBySpec(a_to_b, amount_in)

\* C13: a swap on a fresh price is rejected with NoValidPriceSources when the
\* effective price is 0, with SlippageExceeded when its amount_out is below
\* min_amount_out, and with InsufficientLiquidity when the destination vault
\* holds less than an amount_out that passes the slippage check (the checks
\* are made in this order); none of the three moves a token or changes the
\* counters or the history, and a successful swap pays out
\* amount_out >= min_amount_out.
C13_RejectionCodesInOrder ==
    \A a_to_b \in BOOLEAN, amount_in \in PoolAmountsIn, min_amount_out \in PoolMinAmountsOut :
        LET r == swap(World, a_to_b, amount_in, min_amount_out, now)
        IN  /\ (SwapComputesAmount /\ AmountOutBySpec(a_to_b, amount_in) < min_amount_out)
                => r.err = "SlippageExceeded"
            /\ (SwapComputesAmount
                 /\ AmountOutBySpec(a_to_b, amount_in) >= min_amount_out
                 /\ tokens[DestVault(a_to_b)] < AmountOutBySpec(a_to_b, amount_in))
                => r.err = "InsufficientLiquidity"
            /\ (pool.is_initialized /\ ~is_oracle_stale(pool, now)
                 /\ calculate_weighted_price(pool) = 0)
                => r.err = "NoValidPriceSources"
            /\ SwapOutcome(a_to_b, amount_in, min_amount_out)

\* from one state the three rejections are on offer and the last swap went
\* through: a positive min_amount_out the amount misses, an amount the empty
\* destination vault cannot pay, after a swap that paid out
C13_Witness ==
    /\ last.op = "swap" /\ last.err = "Ok"
    /\ tokens["vault_a"] + tokens["vault_b"] > 0
    /\ \E a_to_b \in BOOLEAN, amount_in \in PoolAmountsIn, min_amount_out \in PoolMinAmountsOut :
          swap(World, a_to_b, amount_in, min_amount_out, now).err = "SlippageExceeded"

\* C14: at the pool's effective price and fee, in both directions, the
\* amount_out that swap computes never decreases when amount_in grows, over
\* the whole 64-bit range of amount_in.
C14_AmountOutMonotone ==
    (pool.is_initialized /\ calculate_weighted_price(pool) > 0
     /\ calculate_dynamic_fee(pool) \in 0..BPS_PRECISION)
    => \A a_to_b \in BOOLEAN, amount_in \in 0..(U64_MAX - 1) :
          swap_amount_out(a_to_b, amount_in, calculate_weighted_price(pool),
                          calculate_dynamic_fee(pool))
            <= swap_amount_out(a_to_b, amount_in + 1, calculate_weighted_price(pool),
                               calculate_dynamic_fee(pool))

\* C15: calculate_dynamic_fee returns a fee for every pool: fee_bps when
\* dynamic fees are off or the volatility is at most the threshold, and
\* otherwise min(fee_bps * min(5, volatility / threshold), 1000), a
\* threshold of 0 giving the multiplier 5.
C15_DynamicFee ==
    pool.is_initialized
    => /\ calculate_dynamic_fee(pool) # None
       /\ LET volatility == calculate_volatility(pool)
              threshold == pool.volatility_threshold
          IN  calculate_dynamic_fee(pool) =
                IF ~pool.dynamic_fee_enabled \/ volatility <= threshold THEN pool.fee_bps
                ELSE Min(pool.fee_bps * (IF threshold = 0 THEN MAX_VOLATILITY_MULTIPLIER
                                         ELSE Min(MAX_VOLATILITY_MULTIPLIER,
                                                  volatility \div threshold)),
                         MAX_DYNAMIC_FEE_BPS)

\* the price sources a pool has stored, with their prices and weights
PriceSources == {"pyth", "switchboard", "ai"}
SourcePrice(p, s) ==
    IF s = "pyth" THEN p.pyth_price
    ELSE IF s = "switchboard" THEN p.switchboard_price ELSE p.ai_price
SourceWeight(s) ==
    IF s = "pyth" THEN PYTH_WEIGHT
    ELSE IF s = "switchboard" THEN SWITCHBOARD_WEIGHT ELSE AI_WEIGHT
StoredSources(p) == {s \in PriceSources : SourcePrice(p, s) # None}

RECURSIVE SumOver(_, _, _)
SumOver(S, p, weighted) ==
    IF S = {} THEN 0
    ELSE LET s == CHOOSE x \in S : TRUE
         IN  (IF weighted THEN SourcePrice(p, s) * SourceWeight(s) ELSE SourceWeight(s))
             + SumOver(S \ {s}, p, weighted)

\* C16: calculate_weighted_price is the weighted mean, rounded down, of the
\* sources the pool has stored (weights 40, 35, 25), and the stored
\* oracle_price when it has stored none; pyth at 1.1 and switchboard at 1.2
\* times the precision with no ai price give 86/75 of the precision, rounded
\* down (1,146,666,666 at a precision of 10^9).
C16_WeightedPrice ==
    pool.is_initialized
    => /\ calculate_weighted_price(pool) =
            IF StoredSources(pool) = {} THEN pool.oracle_price
            ELSE SumOver(StoredSources(pool), pool, TRUE)
                   \div SumOver(StoredSources(pool), pool, FALSE)
       /\ (/\ pool.pyth_price = (11 * ORACLE_PRICE_PRECISION) \div 10
           /\ pool.switchboard_price = (12 * ORACLE_PRICE_PRECISION) \div 10
           /\ pool.ai_price = None)
          => calculate_weighted_price(pool) = (86 * ORACLE_PRICE_PRECISION) \div 75

\* the pool holds the two prices of the example and no ai price
C16_Witness ==
    /\ pool.is_initialized
    /\ pool.pyth_price = (11 * ORACLE_PRICE_PRECISION) \div 10
    /\ pool.switchboard_price = (12 * ORACLE_PRICE_PRECISION) \div 10
    /\ pool.ai_price = None
    /\ pool.oracle_price = calculate_weighted_price(pool)

\* registrations tried in every state: each referral level from 0 to 6, no
\* parent, another affiliate or the registering affiliate as parent, with and
\* without rate caps
RegisterProbeArgs ==
    {[parent_affiliate |-> parent, referral_level |-> level, rate_caps_enabled |-> caps,
      max_commission_rate_bps |-> 500, min_commission_rate_bps |-> 100] :
        parent \in AffiliateKeys, level \in 0..6, caps \in BOOLEAN}

\* C17: a registration with referral_level 0 or above 5 fails with
\* InvalidReferralLevel, one whose level is valid and whose parent is the
\* registering affiliate fails with CircularReferral, and neither creates a
\* record; any other registration creates a record with rate 1000, tier
\* Bronze, every counter 0, and the caps [50, 2000] when rate caps are off.
C17_RegisterAffiliate ==
    ~affiliate_info.is_initialized
    => \A args \in RegisterProbeArgs :
          LET r == register_affiliate(World, args, now)
              after == Commit(World, r).affiliate_info
          IN  IF args.referral_level = 0 \/ args.referral_level > 5
              THEN r.err = "InvalidReferralLevel" /\ after = affiliate_info
              ELSE IF args.parent_affiliate = AffiliateKey
              THEN r.err = "CircularReferral" /\ after = affiliate_info
              ELSE /\ r.err = "Ok" /\ after.is_initialized
                   /\ after.commission_rate_bps = 1000
                   /\ after.performance_tier = "Bronze"
                   /\ after.total_referred_volume = 0
                   /\ after.monthly_referred_volume = 0
                   /\ after.quarterly_referred_volume = 0
                   /\ after.yearly_referred_volume = 0
                   /\ after.successful_referrals = 0
                   /\ after.total_clicks = 0
                   /\ ~args.rate_caps_enabled
                        => /\ after.min_commission_rate_bps = 50
                           /\ after.max_commission_rate_bps = 2000

\* a registration naming the affiliate itself as parent has just been
\* rejected and there is still no record
C17_Witness ==
    /\ last.op = "register_affiliate" /\ last.err = "CircularReferral"
    /\ ~affiliate_info.is_initialized

\* C18: a successful purchase of sol_amount pays
\* floor(sol_amount * platform_fee_bps / 10000) to the platform recipient and
\* sol_amount less the platform fee and the affiliate fee (charged only when
\* an affiliate is named) to the SOL vault, and adds the same two amounts to
\* total_fees_collected and total_sol_collected; with both rates 0 the vault
\* receives all the buyer spends, which is sol_amount.
C18_FeeSplit ==
    \A sol_amount \in SolAmounts, affiliate_key \in AffiliateKeys :
        LET r == buy_tokens(World, sol_amount, affiliate_key, FALSE, now)
            after == Commit(World, r)
            platform_fee == (sol_amount * launch.platform_fee_bps) \div 10000
            affiliate_fee == IF affiliate_key # NoKey
                             THEN (sol_amount * launch.affiliate_fee_bps) \div 10000 ELSE 0
            net == sol_amount - platform_fee - affiliate_fee
        IN  r.err = "Ok"
            => /\ after.lamports["platform_fee_recipient"]
                    = lamports["platform_fee_recipient"] + platform_fee
               /\ after.lamports["sol_vault"] = lamports["sol_vault"] + net
               /\ after.launch.total_sol_collected = launch.total_sol_collected + net
               /\ after.launch.total_fees_collected = launch.total_fees_collected + platform_fee
               /\ (launch.platform_fee_bps = 0 /\ launch.affiliate_fee_bps = 0)
                    => /\ after.lamports["sol_vault"] = lamports["sol_vault"] + sol_amount
                       /\ after.lamports["buyer"] = lamports["buyer"] - sol_amount

\* a purchase through an affiliate has gone through on a launch that charges
\* both fees: the recipient holds the platform fees, the vault what the sale
\* has collected
C18_Witness ==
    /\ last.op = "buy_tokens" /\ last.err = "Ok" /\ last.cpi # "NotCalled"
    /\ launch.platform_fee_bps > 0 /\ launch.affiliate_fee_bps > 0
    /\ lamports["platform_fee_recipient"] = launch.total_fees_collected
    /\ lamports["platform_fee_recipient"] > 0
    /\ lamports["sol_vault"] = launch.total_sol_collected
    /\ lamports["sol_vault"] > 0

\* the effective price that a pool's stored prices stand for
PriceOfSources(p) ==
    IF StoredSources(p) = {} THEN p.oracle_price
    ELSE SumOver(StoredSources(p), p, TRUE) \div SumOver(StoredSources(p), p, FALSE)

PriceState(p) == <<p.pyth_price, p.switchboard_price, p.ai_price, p.oracle_price>>

AntiBotErrors == {"PurchaseAmountTooLow", "PurchaseAmountTooHigh", "PurchaseCooldownActive"}

\* the purchase passes every check of buy_tokens that comes before the
\* anti-bot check of line 199
BuyReachesAntiBotCheck(sol_amount) ==
    /\ launch.is_initialized /\ affiliate_info.is_initialized
    /\ sol_amount > 0
    /\ is_launch_active(launch, now)
    /\ ~is_max_supply_reached(launch)

\* what the anti-bot rules say of a purchase of sol_amount made now
AntiBotVerdict(sol_amount) ==
    IF launch.anti_bot_level = "None" THEN "Ok"
    ELSE IF sol_amount < launch.min_purchase_amount THEN "PurchaseAmountTooLow"
    ELSE IF sol_amount > launch.max_purchase_amount THEN "PurchaseAmountTooHigh"
    ELSE IF launch.anti_bot_level \in {"Advanced", "Maximum"}
            /\ now - launch.last_purchase_timestamp < launch.purchase_cooldown_seconds
         THEN "PurchaseCooldownActive"
    ELSE "Ok"

C21_WindowAndSupply ==
    [][launch.is_initialized
       => /\ affiliate_info.is_initialized
               => \A sol_amount \in WindowSolAmounts \ {0} :
                     LET r == buy_tokens(World, sol_amount, NoKey, FALSE, now)
                     IN  /\ (now < launch.launch_start_time \/ now > launch.launch_end_time)
                              => r.err = "LaunchNotActive"
                         /\ (now = launch.launch_start_time \/ now = launch.launch_end_time)
                              => r.err # "LaunchNotActive"
                         /\ (now >= launch.launch_start_time /\ now <= launch.launch_end_time
                              /\ launch.tokens_sold >= launch.max_tokens)
                              => r.err = "MaxSupplyReached"
          /\ launch'.tokens_sold # launch.tokens_sold
               => now >= launch.launch_start_time /\ now <= launch.launch_end_time]_vars

\* a purchase has just been refused one second after an end of the window
\* that the authority had moved, on a launch that has sold tokens
C21_Witness ==
    /\ last.op = "buy_tokens" /\ last.err = "LaunchNotActive"
    /\ launch.tokens_sold > 0
    /\ launch.launch_end_time # WindowEnd
    /\ now = launch.launch_end_time + 1

\* what update_commission_rate_ai is to answer to new_rate at this instant
RateUpdateVerdict(new_rate) ==
    LET info == affiliate_info
    IN  IF new_rate < 50 \/ new_rate > 2000 THEN "InvalidRate"
        ELSE IF info.rate_caps_enabled /\ new_rate < info.min_commission_rate_bps
             THEN "RateBelowMinCap"
        ELSE IF info.rate_caps_enabled /\ new_rate > info.max_commission_rate_bps
             THEN "RateExceedsMaxCap"
        ELSE IF now - info.last_rate_update_time < 86400 THEN "RateUpdateNotAllowed"
        ELSE "Ok"

\* C22: update_commission_rate_ai refuses a rate outside [50, 2000] with
\* InvalidRate, a rate outside the affiliate's enabled caps with
\* RateBelowMinCap or RateExceedsMaxCap, and an update less than 86400 s
\* after last_rate_update_time with RateUpdateNotAllowed (and returns that
\* code for no other reason); a refusal leaves the rate and
\* last_rate_update_time as they were, a success sets them to new_rate and
\* now, at least 86400 s after the last update and after registration.
C22_AiRateUpdate ==
    affiliate_info.is_initialized
    => \A new_rate \in RateUpdates :
          LET r == update_commission_rate_ai(World, [new_rate_bps |-> new_rate,
                                                     ai_suggested |-> TRUE], now)
              after == Commit(World, r).affiliate_info
          IN  /\ r.err = RateUpdateVerdict(new_rate)
              /\ r.err # "Ok"
                   => /\ after.commission_rate_bps = affiliate_info.commission_rate_bps
                      /\ after.last_rate_update_time = affiliate_info.last_rate_update_time
              /\ r.err = "Ok"
                   => /\ after.commission_rate_bps = new_rate
                      /\ after.last_rate_update_time = now
                      /\ now - affiliate_info.last_rate_update_time >= 86400
                      /\ now - affiliate_info.registration_time >= 86400

\* an update has just been refused one second before the interval that a
\* successful update started runs out
C22_Witness ==
    /\ last.op = "update_commission_rate_ai" /\ last.err = "RateUpdateNotAllowed"
    /\ affiliate_info.last_rate_update_time > affiliate_info.registration_time
    /\ now - affiliate_info.last_rate_update_time = RATE_UPDATE_INTERVAL - 1

\* the value update_oracle_price is to leave in a source: the one supplied,
\* or the stored one when none is supplied
MergedSource(supplied, stored) == IF supplied # None THEN supplied ELSE stored

\* C23: update_oracle_price signed by another key than the pool's
\* oracle_authority fails with InvalidOracleAuthority and leaves the pool as
\* it was; signed by the oracle authority it overwrites the sources supplied
\* and keeps the others, stores the weighted price of the merged sources as
\* oracle_price, sets last_oracle_update to now and writes that price into
\* the next slot of the history, after which oracle_price is the effective
\* price a swap computes.
C23_UpdateOraclePrice ==
    pool.is_initialized
    => \A signer \in PoolSigners, args \in PoolPriceArgs :
          LET r == update_oracle_price(World, signer, args, now)
              after == Commit(World, r).pool
          IN  IF signer # pool.oracle_authority
              THEN r.err = "InvalidOracleAuthority" /\ after = pool
              ELSE /\ r.err = "Ok"
                   /\ after.pyth_price = MergedSource(args.pyth_price, pool.pyth_price)
                   /\ after.switchboard_price
                        = MergedSource(args.switchboard_price, pool.switchboard_price)
                   /\ after.ai_price = MergedSource(args.ai_price, pool.ai_price)
                   /\ after.oracle_price = PriceOfSources(after)
                   /\ after.last_oracle_update = now
                   /\ after.history_index = (pool.history_index + 1) % HISTORY_SLOTS
                   /\ \A i \in 1..HISTORY_SLOTS :
                         after.price_history[i] =
                           IF i = pool.history_index + 1 THEN after.oracle_price
                           ELSE pool.price_history[i]
                   /\ calculate_weighted_price(after) = after.oracle_price
                   /\ after.fee_bps = pool.fee_bps
                   /\ after.oracle_authority = pool.oracle_authority

\* a second update has just gone through and the pool holds a source it
\* supplied next to a source that only the first update supplied
C23_Witness ==
    /\ last.op = "update_oracle_price" /\ last.err = "Ok"
    /\ pool.history_index = 2
    /\ pool.ai_price # None /\ pool.pyth_price # None
    /\ pool.last_oracle_update = now /\ now > 0

\* C24: emergency_pause is accepted from the oracle authority only and, for
\* either value of paused, leaves the pool record and every balance as they
\* were, so each swap gets the same answer after it as before it.
C24_PauseChangesNothing ==
    pool.is_initialized
    => \A signer \in PoolSigners, paused \in BOOLEAN :
          LET r == emergency_pause(World, signer, paused)
              after == Commit(World, r)
          IN  /\ r.err = IF signer = pool.oracle_authority THEN "Ok"
                         ELSE "InvalidOracleAuthority"
              /\ after.pool = pool
              /\ after.tokens = tokens
              /\ \A a_to_b \in BOOLEAN, amount_in \in PoolAmountsIn,
                    min_amount_out \in PoolMinAmountsOut :
                    swap(World, a_to_b, amount_in, min_amount_out, now).err = "Ok"
                    => swap(after, a_to_b, amount_in, min_amount_out, now).err = "Ok"

\* the oracle authority has just paused the pool and a swap still succeeds
C24_Witness ==
    /\ last.op = "emergency_pause" /\ last.err = "Ok"
    /\ tokens["vault_a"] > 0
    /\ \E a_to_b \in BOOLEAN, amount_in \in PoolAmountsIn :
          swap(World, a_to_b, amount_in, 0, now).err = "Ok"

\* what update_launch is to answer to args signed by signer at this instant
UpdateLaunchVerdict(signer, args) ==
    IF signer # launch.authority THEN "AuthorityMismatch"
    ELSE IF args.new_end_time # None /\ args.new_end_time <= now THEN "InvalidLaunchTime"
    ELSE IF args.new_max_tokens # None /\ args.new_max_tokens < launch.tokens_sold
         THEN "InvalidAmount"
    ELSE "Ok"

\* C25: update_launch is refused for any signer but the launch's authority,
\* for a new_end_time that is not after now (InvalidLaunchTime) and for a
\* new_max_tokens below tokens_sold (InvalidAmount), and then changes
\* nothing; otherwise it succeeds and the launch record differs from the
\* old one in the supplied fields only, every balance staying as it was.
C25_UpdateLaunch ==
    launch.is_initialized
    => \A signer \in {AuthorityKey, "other"}, args \in UpdateLaunchArgs :
          LET r == update_launch(World, signer, args, now)
              after == Commit(World, r)
          IN  /\ r.err = UpdateLaunchVerdict(signer, args)
              /\ r.err # "Ok" => after = World
              /\ r.err = "Ok"
                   => after =
                        [World EXCEPT
                           !.launch.launch_end_time =
                               IF args.new_end_time # None THEN args.new_end_time ELSE @,
                           !.launch.max_tokens =
                               IF args.new_max_tokens # None THEN args.new_max_tokens ELSE @,
                           !.launch.min_purchase_amount =
                               IF args.new_min_purchase_amount # None
                               THEN args.new_min_purchase_amount ELSE @,
                           !.launch.max_purchase_amount =
                               IF args.new_max_purchase_amount # None
                               THEN args.new_max_purchase_amount ELSE @]

\* the authority has just moved the end of a launch that has sold tokens
\* and collected SOL
C25_Witness ==
    /\ last.op = "update_launch" /\ last.err = "Ok"
    /\ launch.tokens_sold > 0 /\ launch.total_sol_collected > 0
    /\ launch.launch_end_time = MaxTime

\* C26: withdraw_sol is refused for any signer but the launch's authority
\* and when the vault is empty; otherwise it moves the whole vault balance to
\* the authority, leaving the vault at 0 and the launch record, with its
\* total_sol_collected, as it was.
C26_WithdrawSol ==
    launch.is_initialized
    => \A signer \in {AuthorityKey, "other"} :
          LET r == withdraw_sol(World, signer)
              after == Commit(World, r)
          IN  /\ r.err = "Ok" <=> (signer = launch.authority /\ lamports["sol_vault"] > 0)
              /\ r.err # "Ok" => after = World
              /\ r.err = "Ok"
                   => /\ after.lamports["sol_vault"] = 0
                      /\ after.lamports["authority"]
                           = lamports["authority"] + lamports["sol_vault"]
                      /\ after.lamports["buyer"] = lamports["buyer"]
                      /\ after.lamports["platform_fee_recipient"]
                           = lamports["platform_fee_recipient"]
                      /\ after.launch = launch

\* the authority has just emptied the vault: it holds all the sale has
\* collected, and total_sol_collected still shows it
C26_Witness ==
    /\ last.op = "withdraw_sol" /\ last.err = "Ok"
    /\ lamports["sol_vault"] = 0
    /\ lamports["authority"] > 0
    /\ launch.total_sol_collected = lamports["authority"]

\* C27: create_launch creates no record when launch_end_time is not after
\* launch_start_time, when a fee rate exceeds 2000, when the vesting duration
\* is outside [86400, 31557600] or when the cliff exceeds the duration; a
\* record it creates has tokens_sold, total_sol_collected,
\* total_fees_collected and purchase_count at 0.
C27_CreateLaunchValidation ==
    ~launch.is_initialized
    => \A args \in LaunchArgs :
          LET r == create_launch(World, args, now)
              after == Commit(World, r).launch
          IN  /\ (\/ args.launch_end_time <= args.launch_start_time
                  \/ args.affiliate_fee_bps > 2000
                  \/ args.platform_fee_bps > 2000
                  \/ args.vesting_duration_seconds < 86400
                  \/ args.vesting_duration_seconds > 31557600
                  \/ args.vesting_cliff_seconds > args.vesting_duration_seconds)
                 => r.err # "Ok" /\ ~after.is_initialized
              /\ r.err = "Ok"
                   => /\ after.tokens_sold = 0 /\ after.total_sol_collected = 0
                      /\ after.total_fees_collected = 0 /\ after.purchase_count = 0

\* C28: total_referred_volume and successful_referrals count the referred
\* purchases and nothing else: a purchase whose commission was processed
\* adds its purchased tokens to total_referred_volume and 1 to
\* successful_referrals, and no other operation, update_analytics
\* included, changes either.
C28_ReferredVolume ==
    [][affiliate_info.is_initialized
       => IF last'.op = "buy_tokens" /\ last'.err = "Ok" /\ last'.cpi = "Ok"
          THEN /\ affiliate_info'.total_referred_volume
                    = affiliate_info.total_referred_volume
                      + (launch'.tokens_sold - launch.tokens_sold)
               /\ affiliate_info'.successful_referrals
                    = affiliate_info.successful_referrals + 1
          ELSE /\ affiliate_info'.total_referred_volume
                    = affiliate_info.total_referred_volume
               /\ affiliate_info'.successful_referrals
                    = affiliate_info.successful_referrals]_vars

C30_ConversionRate ==
    \A args \in ConversionAnalyticsArgs :
        LET r == update_analytics(World, args, now)
            info == r.w.affiliate_info
        IN  r.err = "Ok" /\ info.total_clicks > 0
              => /\ info.conversion_rate_bps
                      = (info.successful_referrals * 10000) \div info.total_clicks
                 /\ info.total_clicks = affiliate_info.total_clicks + args.clicks

\* C31: get_ai_suggested_rate changes no field of the affiliate record (nor
\* any other account); the rate it emits is the tier base (Bronze 500, Silver
\* 750, Gold 1000, Platinum 1250) plus 100 if conversion_rate_bps >= 500,
\* minus 50 if conversion_rate_bps <= 100, plus 0 otherwise, and lies in
\* [50, 2000]; the same holds for every tier with conversion rates on both
\* sides of both thresholds.
C31_SuggestedRate ==
    [][LET BaseRate == [Bronze |-> 500, Silver |-> 750, Gold |-> 1000, Platinum |-> 1250]
           Adjustment(conversion) ==
               CASE conversion >= 500 -> 100
                 [] conversion <= 100 -> 0 - 50
                 [] OTHER -> 0
           ByRule(tier, conversion) == BaseRate[tier] + Adjustment(conversion)
           ProbeConversions == {0, 100, 101, 499, 500, U16_MAX}
       IN  /\ last'.op = "get_ai_suggested_rate"
                 => /\ affiliate_info' = affiliate_info
                    /\ accounts' = accounts
                    /\ last'.err = "Ok"
                         => /\ emitted'.suggested_rate_bps
                                 = ByRule(affiliate_info.performance_tier,
                                          affiliate_info.conversion_rate_bps)
                            /\ emitted'.suggested_rate_bps >= 50
                            /\ emitted'.suggested_rate_bps <= 2000
           /\ \A t \in DOMAIN BaseRate, c \in ProbeConversions :
                 LET r == get_ai_suggested_rate(
                              [World EXCEPT !.affiliate_info.is_initialized = TRUE,
                                            !.affiliate_info.performance_tier = t,
                                            !.affiliate_info.conversion_rate_bps = c], now)
                 IN  /\ r.err = "Ok"
                     /\ r.event.suggested_rate_bps = ByRule(t, c)
                     /\ r.event.suggested_rate_bps \in 50..2000
                     /\ r.w.affiliate_info.commission_rate_bps
                          = affiliate_info.commission_rate_bps]_vars
C31_Witness ==
    /\ last.op = "get_ai_suggested_rate"
    /\ last.err = "Ok"
    /\ affiliate_info.performance_tier = "Silver"
    /\ emitted.suggested_rate_bps = 850

\* C32: the analytics current_day_index stays in 0..29 and the pool
\* history_index in 0..23; every append writes the slot at the current index
\* and advances the index by one modulo the buffer size (30, 24), so the
\* append made with the index back at 0 overwrites slot 0 and leaves every
\* other slot untouched.
C32_RingBuffers ==
    /\ analytics.current_day_index \in 0..29
    /\ pool.history_index \in 0..23
    /\ \A args \in RingAnalyticsArgs :
          LET r == update_analytics(World, args, now)
              i == analytics.current_day_index
          IN  r.err = "Ok"
                => /\ r.w.analytics.daily_volume
                        = [analytics.daily_volume EXCEPT ![i + 1] = args.volume]
                   /\ r.w.analytics.daily_clicks
                        = [analytics.daily_clicks EXCEPT ![i + 1] = args.clicks]
                   /\ r.w.analytics.current_day_index = (i + 1) % 30
    /\ \A args \in RingPriceArgs :
          LET r == update_oracle_price(World, OracleKey, args, now)
              i == pool.history_index
          IN  r.err = "Ok"
                => /\ r.w.pool.price_history
                        = [pool.price_history EXCEPT ![i + 1] = r.w.pool.oracle_price]
                   /\ r.w.pool.history_index = (i + 1) % 24
\* both rings a lap on: slot 0 rewritten with the plain value next to the
\* marked slot 1 of the lap before
C32_Witness ==
    /\ analytics.current_day_index = 1
    /\ analytics.daily_volume[1] = 0
    /\ analytics.daily_volume[2] = 90
    /\ pool.history_index = 1
    /\ pool.price_history[1] = RingPlainPrice
    /\ pool.price_history[2] = RingMarkedPrice

\* C33: calculate_volatility is the population standard deviation (times the
\* price precision, cut to its integer part; 0 for fewer than two slots) over
\* exactly the history slots written so far: min(n, 24) slots after n appends
\* to a new pool, all 24 once the ring has wrapped, also with history_index
\* back at 0. create_pool fills the history with the price precision and
\* every price SpecRing appends differs from it, which tells the written slots.
C33_VolatilityOverWrittenSlots ==
    LET Written == {i \in 1..24 : pool.price_history[i] # ORACLE_PRICE_PRECISION}
        RECURSIVE SlotSum(_, _)
        SlotSum(f, S) == IF S = {} THEN 0
                         ELSE LET i == CHOOSE j \in S : TRUE IN f[i] + SlotSum(f, S \ {i})
        n == Cardinality(Written)
        mean == SlotSum(pool.price_history, Written) \div n
        squares == [i \in 1..24 |-> (pool.price_history[i] - mean)
                                      * (pool.price_history[i] - mean)]
        variance == SlotSum(squares, Written) \div n
        deviation == IF n < 2 THEN 0
                     ELSE isqrt(variance * ORACLE_PRICE_PRECISION * ORACLE_PRICE_PRECISION,
                                0, U64_MAX * ORACLE_PRICE_PRECISION)
    IN  pool.is_initialized => calculate_volatility(pool) = deviation

\* C34: for the Exponential pricing model calculate_current_price returns
\* exactly initial_price * (1 + slope)^tokens_sold, or aborts with Overflow
\* when that value does not fit; never another price, whatever tokens_sold is.
C34_ExponentialPrice ==
    LET \* acc * base^exp, or U64_MAX + 1 as soon as the product exceeds u64
        RECURSIVE Power(_, _, _)
        Power(base, exp, acc) ==
            IF exp = 0 THEN acc
            ELSE IF acc * base > U64_MAX THEN U64_MAX + 1
            ELSE Power(base, exp - 1, acc * base)
        factor == Power(1 + launch.slope, launch.tokens_sold, 1)
        price == IF factor > U64_MAX \/ launch.initial_price * factor > U64_MAX THEN None
                 ELSE launch.initial_price * factor
    IN  launch.is_initialized /\ launch.pricing_model = "ExponentialBondingCurve"
            => calculate_current_price(launch, now) = price

C36_SwapSucceeds ==
    \A a_to_b \in BOOLEAN, amount_in \in PoolAmountsIn, min_amount_out \in PoolMinAmountsOut :
        (/\ SwapComputesAmount
         /\ tokens["vault_a"] > 0 /\ tokens["vault_b"] > 0
         /\ tokens[IF a_to_b THEN "user_token_account_a" ELSE "user_token_account_b"]
               >= amount_in
         /\ AmountOutBySpec(a_to_b, amount_in) >= min_amount_out
         /\ AmountOutBySpec(a_to_b, amount_in) <= tokens[DestVault(a_to_b)])
            => swap(World, a_to_b, amount_in, min_amount_out, now).err = "Ok"

\* C37: every launch create_launch accepted has both fee rates at most 2000
\* bps, so for every sol_amount the platform fee and the affiliate fee
\* together are at most sol_amount, and no purchase is rejected with
\* FeeCalculationOverflow.
C37_FeesWithinAmount ==
    launch.is_initialized
        => /\ launch.platform_fee_bps <= 2000
           /\ launch.affiliate_fee_bps <= 2000
           /\ \A sol_amount \in 0..U64_MAX :
                 calculate_commission_amount(sol_amount, launch.platform_fee_bps)
                   + calculate_commission_amount(sol_amount, launch.affiliate_fee_bps)
                     <= sol_amount
           /\ \A sol_amount \in SolAmounts \cup {1, U64_MAX}, k \in AffiliateKeys,
                 v \in BOOLEAN :
                 buy_tokens(World, sol_amount, k, v, now).err # "FeeCalculationOverflow"
           /\ last.err # "FeeCalculationOverflow"
\* a purchase through an affiliate on a launch with both fees at the maximum
C37_Witness ==
    /\ last.op = "buy_tokens" /\ last.err = "Ok" /\ last.cpi = "Ok"
    /\ launch.platform_fee_bps = 2000
    /\ launch.affiliate_fee_bps = 2000

\* C38: launch_start_time < launch_end_time in every state of a launch
\* record, after create_launch and after any sequence of update_launch calls,
\* an update made before the launch has started included.
C38_StartBeforeEnd ==
    launch.is_initialized => launch.launch_start_time < launch.launch_end_time

\* C39: every vesting record written by buy_tokens has duration_seconds in
\* [86400, 31557600] and 0 <= cliff_seconds <= duration_seconds, also when
\* the buyer asks for vesting on a launch created with vesting_enabled = false.
C39_VestingRecordBounds ==
    vesting.beneficiary # NoKey
        => /\ vesting.duration_seconds >= 86400
           /\ vesting.duration_seconds <= 31557600
           /\ 0 <= vesting.cliff_seconds
           /\ vesting.cliff_seconds <= vesting.duration_seconds

\* C40: the sale tokens minted for a launch, to buyers, into vesting and as
\* affiliate commissions together, never exceed the launch's max_tokens.
C40_MintedWithinMaxTokens ==
    launch.is_initialized => mint_supply <= launch.max_tokens

====
